---------------------------- MODULE Spec2Model ----------------------------
(***************************************************************************)
(* Verification model of projeto-whisper (Whisper Pro Transcriber).        *)
(*                                                                         *)
(* Part I   File intake validator        utils.validate_audio_file         *)
(* Part II  Jobs: model cache, recognition invoker, staging                *)
(*          transcriber.load_whisper_model / transcribe_audio,             *)
(*          audio_recorder.process_recorded_audio, main.main,              *)
(*          utils.save_uploaded_file                                       *)
(* Part III Options handed to model.transcribe                             *)
(*          transcriber.transcribe_audio, utils.validate_advanced_options, *)
(*          main.transcribe_file                                           *)
(* Part IV  Time formatting and subtitles                                  *)
(*          utils.format_time, audio_recorder.generate_srt_from_segments,  *)
(*          main.generate_srt                                              *)
(* Part V   Enrichment   transcriber.enhance_transcription_result          *)
(* Part VI  Device profile                                                 *)
(*          transcriber.optimize_for_device, Config.get_device_config      *)
(* Part VII File names   utils.clean_filename                              *)
(* Part VIII Temporary files: utils.save_uploaded_file and                 *)
(*          main.save_uploaded_file step by step; the recording session    *)
(*          of audio_recorder (start, stop, automatic stop, reset)         *)
(* Specifications: Spec (one session, whole jobs), SpecCache (concurrent   *)
(* callers of load_whisper_model), SpecValidate (the validator alone),     *)
(* SpecOptions, SpecFormat, SpecEnrich, SpecDevice, SpecNames and          *)
(* SpecStaging (one call of a function of Parts III to VIII for each of    *)
(* its bounded inputs), SpecRecorder (the recording session).              *)
(* Properties follow the specifications, one group per claim.              *)
(***************************************************************************)
EXTENDS Integers, Sequences, FiniteSets, TLC

VARIABLES
    uploaded_file,      \* the descriptor handed to validate_audio_file
    validation_result,  \* what validate_audio_file returned for it
    DEVICE,             \* transcriber.DEVICE: "cuda" or "cpu", fixed at import
    cache,              \* st.cache_resource store of load_whisper_model: model_size -> handle
    lock,               \* the cache's load lock of each model_size: the caller holding it, 0 if free
    pc,                 \* where each caller stands in its job
    via,                \* the entry point of the caller's job
    model_size,         \* the model identifier the job asks for
    model,              \* the job's local `model`: the handle it was given
    pending,            \* the exception `e` a handler is holding
    raised,             \* the exception that reached the job's caller
    result,             \* what the job's call returned
    job_file,           \* the uploaded file of a staging job
    trace,              \* the external calls the job has made, in order
    firstHandle,        \* history: the first handle a request for model_size was given
    later,              \* history: the job was requested after firstHandle was set
    hit,                \* history: the job found its model_size loaded when it asked
    loadDone,           \* history: a cached load for model_size has completed
    early,              \* history: the job was requested before loadDone
    earlyLoads,         \* history: whisper.load_model(model_size) calls of early jobs
    okLoads,            \* history: loads stored in the cache per model_size
    args,               \* the arguments of one call of a function of Parts III-VIII
    returned,           \* what that call returned, once it has
    disk,               \* the temporary files that exist
    created,            \* history: the temporary files made so far
    recording_state,    \* st.session_state.recording_state of audio_recorder
    handler             \* history: the recorder handler that ran last, and the file it made

\* one call of a function that reads no shared state
pureVars == <<args, returned>>

\* the temporary files and the recording session
fileVars == <<disk, created, recording_state, handler>>

valVars == <<uploaded_file, validation_result, pureVars, fileVars>>

cacheVars == <<cache, lock>>

callVars == <<pc, via, model_size, model, pending, raised, result, job_file, trace>>

histVars == <<firstHandle, later, hit, loadDone, early, earlyLoads, okLoads>>

sessionVars == <<DEVICE, cacheVars, callVars, histVars>>

jobVars == <<sessionVars, fileVars>>

vars == <<valVars, jobVars>>

\* no call of a function of Parts III-V is set up
NoCall == [fn |-> "none"]

NotReturned == [done |-> FALSE]

PureIdle ==
    /\ args = NoCall
    /\ returned = NotReturned

\* no temporary file: a path of None
NoPath == 0

\* audio_recorder.py lines 71-77: the recording_state a session starts with
NoRecording == [is_recording |-> FALSE, start_time |-> FALSE, recorded_file |-> NoPath]

\* no temporary file yet, no recorder handler run yet
FilesIdle ==
    /\ disk = {}
    /\ created = {}
    /\ recording_state = NoRecording
    /\ handler = [name |-> "none", made |-> NoPath]

\* uploaded_file is None: no file was handed over
NoFile == [present |-> FALSE, name |-> <<>>, size |-> 0, type |-> ""]

(***************************************************************************)
(* Part I.  utils.validate_audio_file                                      *)
(*                                                                         *)
(* A file name is a sequence of atoms: "." is an atom of its own, every    *)
(* other atom is a dot-free piece of the name.  An extension is such a     *)
(* sequence too: <<".", "wav">>.                                           *)
(***************************************************************************)

MAX_FILE_SIZE_MB == 500
MIN_FILE_SIZE_KB == 1
KB == 1024
MB == 1024 * 1024

\* utils.SUPPORTED_AUDIO_TYPES: MIME type -> extensions
SUPPORTED_AUDIO_TYPES ==
    [m \in {"audio/mpeg", "audio/wav", "audio/x-wav", "audio/mp4", "audio/x-m4a",
            "audio/aac", "audio/ogg", "audio/flac", "audio/webm", "video/mp4",
            "video/mpeg", "video/quicktime", "video/webm", "video/x-msvideo"} |->
        CASE m = "audio/mpeg"      -> << <<".", "mp3">> >>
          [] m = "audio/wav"       -> << <<".", "wav">> >>
          [] m = "audio/x-wav"     -> << <<".", "wav">> >>
          [] m = "audio/mp4"       -> << <<".", "m4a">> >>
          [] m = "audio/x-m4a"     -> << <<".", "m4a">> >>
          [] m = "audio/aac"       -> << <<".", "aac">> >>
          [] m = "audio/ogg"       -> << <<".", "ogg">> >>
          [] m = "audio/flac"      -> << <<".", "flac">> >>
          [] m = "audio/webm"      -> << <<".", "webm">> >>
          [] m = "video/mp4"       -> << <<".", "mp4">> >>
          [] m = "video/mpeg"      -> << <<".", "mpeg">>, <<".", "mpg">> >>
          [] m = "video/quicktime" -> << <<".", "mov">> >>
          [] m = "video/webm"      -> << <<".", "webm">> >>
          [] m = "video/x-msvideo" -> << <<".", "avi">> >>]

\* the list validate_audio_file builds from SUPPORTED_AUDIO_TYPES.values()
supported_extensions ==
    UNION { { SUPPORTED_AUDIO_TYPES[m][i] : i \in 1..Len(SUPPORTED_AUDIO_TYPES[m]) } :
            m \in DOMAIN SUPPORTED_AUDIO_TYPES }

\* the literal list of the "arquivos suspeitos" check
SUSPICIOUS_EXTENSIONS ==
    { <<".", "exe">>, <<".", "bat">>, <<".", "sh">>, <<".", "scr">>,
      <<".", "com">>, <<".", "pif">> }

\* str.lower() on the atoms the model uses
LowerAtom(a) ==
    CASE a = "WAV" -> "wav"
      [] a = "MP4" -> "mp4"
      [] a = "EXE" -> "exe"
      [] a = "CLIP" -> "clip"
      [] a = "SETUP" -> "setup"
      [] OTHER -> a

Lower(s) == [i \in 1..Len(s) |-> LowerAtom(s[i])]

\* str.rfind('.') : the last index holding ".", 0 when there is none
\* (Python's -1; indices here are 1-based)
RFindDot(name) ==
    LET dots == { i \in 1..Len(name) : name[i] = "." }
    IN  IF dots = {} THEN 0 ELSE CHOOSE i \in dots : \A j \in dots : j <= i

\* pathlib.PurePath.suffix: the last dot and what follows it, unless that dot
\* leads the name or ends it
PathSuffix(name) ==
    LET i == RFindDot(name)
    IN  IF 1 < i /\ i < Len(name) THEN SubSeq(name, i, Len(name)) ELSE <<>>

Invalid(msg, arg) == [valid |-> FALSE, error |-> [msg |-> msg, arg |-> arg]]

Valid == [valid |-> TRUE]

\* the checks after the size checks, with the sizes swapped behind the MIME check
validate_audio_file_mime_first(f) ==
    IF f = NoFile THEN Invalid("Nenhum arquivo foi carregado", <<>>)
    ELSE IF f.name = <<>> THEN Invalid("Nome do arquivo esta vazio", <<>>)
    ELSE IF f.type # "" /\ f.type \notin DOMAIN SUPPORTED_AUDIO_TYPES
         THEN Invalid("Tipo de arquivo nao suportado", <<f.type>>)
    ELSE IF f.size < MIN_FILE_SIZE_KB * KB
         THEN Invalid("Arquivo muito pequeno", <<>>)
    ELSE IF f.size > MAX_FILE_SIZE_MB * MB
         THEN Invalid("Arquivo muito grande", <<>>)
    ELSE LET file_extension == Lower(PathSuffix(f.name))
         IN  IF file_extension # <<>> /\ file_extension \notin supported_extensions
             THEN Invalid("Extensao nao suportada", file_extension)
             ELSE IF file_extension \in SUSPICIOUS_EXTENSIONS
                  THEN Invalid("Tipo de arquivo nao permitido por seguranca", <<>>)
                  ELSE Valid

\* a validator whose upper size limit is exclusive
validate_audio_file_exclusive_max(f) ==
    IF f = NoFile THEN Invalid("Nenhum arquivo foi carregado", <<>>)
    ELSE IF f.name = <<>> THEN Invalid("Nome do arquivo esta vazio", <<>>)
    ELSE IF f.size < MIN_FILE_SIZE_KB * KB
         THEN Invalid("Arquivo muito pequeno", <<>>)
    ELSE IF f.size >= MAX_FILE_SIZE_MB * MB
         THEN Invalid("Arquivo muito grande", <<>>)
    ELSE IF f.type # "" /\ f.type \notin DOMAIN SUPPORTED_AUDIO_TYPES
         THEN Invalid("Tipo de arquivo nao suportado", <<f.type>>)
    ELSE LET file_extension == Lower(PathSuffix(f.name))
         IN  IF file_extension # <<>> /\ file_extension \notin supported_extensions
             THEN Invalid("Extensao nao suportada", file_extension)
             ELSE IF file_extension \in SUSPICIOUS_EXTENSIONS
                  THEN Invalid("Tipo de arquivo nao permitido por seguranca", <<>>)
                  ELSE Valid

\* utils.validate_audio_file.  file_size_kb < MIN_FILE_SIZE_KB is
\* size / 1024 < 1, that is size < 1024; file_size_mb > MAX_FILE_SIZE_MB is
\* size / 1048576 > 500, that is size > 500 * 1048576.
validate_audio_file(f) ==
    IF f = NoFile THEN Invalid("Nenhum arquivo foi carregado", <<>>)
    ELSE IF f.name = <<>> THEN Invalid("Nome do arquivo esta vazio", <<>>)
    ELSE IF f.size < MIN_FILE_SIZE_KB * KB
         THEN Invalid("Arquivo muito pequeno", <<>>)
    ELSE IF f.size > MAX_FILE_SIZE_MB * MB
         THEN Invalid("Arquivo muito grande", <<>>)
    ELSE IF f.type # "" /\ f.type \notin DOMAIN SUPPORTED_AUDIO_TYPES
         THEN Invalid("Tipo de arquivo nao suportado", <<f.type>>)
    ELSE LET file_extension == Lower(PathSuffix(f.name))
         IN  IF file_extension # <<>> /\ file_extension \notin supported_extensions
             THEN Invalid("Extensao nao suportada", file_extension)
             ELSE IF file_extension \in SUSPICIOUS_EXTENSIONS
                  THEN Invalid("Tipo de arquivo nao permitido por seguranca", <<>>)
                  ELSE Valid

(***************************************************************************)
(* The descriptors the validator is run on.                                *)
(***************************************************************************)
FileNames ==
    { <<>>,
      <<"test", ".", "wav">>,
      <<"huge", ".", "mp3">>,
      <<"CLIP", ".", "MP4">>,
      <<"test", ".", "txt">>,
      <<"setup", ".", "exe">>,
      <<"SETUP", ".", "EXE">>,
      <<"run", ".", "sh">>,
      <<"take", ".", "mpga">>,
      <<"song", ".", "wma">>,
      <<"archive", ".", "exe", ".", "mp3">>,
      <<"track", ".", "mp3", ".", "bat">>,
      <<".", "exe">>,
      <<"noext">>,
      <<"wav", ".">> }

FileSizes ==
    { 0, KB - 1, KB, 5 * MB, MAX_FILE_SIZE_MB * MB - 1, MAX_FILE_SIZE_MB * MB,
      MAX_FILE_SIZE_MB * MB + 1, 600 * MB }

FileTypes ==
    { "", "audio/wav", "audio/mpeg", "video/mp4", "video/x-msvideo",
      "text/plain", "application/x-msdownload" }

Descriptors ==
    {NoFile} \cup [present : {TRUE}, name : FileNames, size : FileSizes, type : FileTypes]

Unset == [valid |-> FALSE, error |-> [msg |-> "unset", arg |-> <<>>]]

ValIdle ==
    /\ uploaded_file = NoFile
    /\ validation_result = Unset
    /\ PureIdle

\* one call validate_audio_file(uploaded_file)
Validate ==
    /\ validation_result = Unset
    /\ validation_result' = validate_audio_file(uploaded_file)
    /\ UNCHANGED <<uploaded_file, pureVars>>

\* the widget hands over another file
Upload ==
    /\ validation_result # Unset
    /\ uploaded_file' \in Descriptors
    /\ validation_result' = Unset
    /\ UNCHANGED pureVars

ValNext == Validate \/ Upload

(***************************************************************************)
(* Part II.  Jobs.                                                         *)
(*                                                                         *)
(* A caller is one script run (a Streamlit session thread) handling one     *)
(* button press: "Transcrever" of the recorder (audio_recorder.py), the     *)
(* "Transcrever Arquivo" button of main.py, or one staging call             *)
(* utils.save_uploaded_file.  The external capabilities (whisper.load_model, *)
(* model.transcribe, torch.cuda.empty_cache, the file system) succeed or    *)
(* raise, nondeterministically.                                             *)
(***************************************************************************)
NCallers == 2

Callers == 1..NCallers

\* the keys of transcriber.MODELS the jobs ask for
ModelIds == {"tiny", "base"}

NoHandle == 0

\* enough handles for every reference the model can hold at once, plus one
MaxHandles == 2 * Cardinality(ModelIds) + NCallers + 1

Handles == 1..MaxHandles

\* the messages of the external capabilities' own exceptions
LOAD_EXC == "whisper.load_model failed"
TRANSCRIBE_EXC == "model.transcribe failed"
CUDA_EXC == "torch.cuda.empty_cache failed"
WRITE_EXC == "tmp_file.write failed"

NoErr == [native |-> FALSE, msg |-> <<>>]

\* an external capability's exception, propagating as it was raised
Native(e) == [native |-> TRUE, msg |-> <<e>>]

\* raise Exception(f"{prefix}: {str(e)}")
Wrapped(prefix, e) == [native |-> FALSE, msg |-> <<prefix, e>>]

\* one external call of a job: what was called, its argument, whether it
\* returned (ok) or raised, and the handle it returned, if any
Event(op, arg, ok, h) == [op |-> op, arg |-> arg, ok |-> ok, h |-> h]

\* the uploads of the staging jobs: a valid file, one too small, one whose
\* extension main.py's uploader offers and the validator does not know
JobFiles ==
    { [present |-> TRUE, name |-> <<"test", ".", "wav">>, size |-> 5 * MB, type |-> "audio/wav"],
      [present |-> TRUE, name |-> <<"test", ".", "wav">>, size |-> KB - 1, type |-> "audio/wav"],
      [present |-> TRUE, name |-> <<"take", ".", "mpga">>, size |-> 5 * MB, type |-> "audio/mpeg"] }

\* whisper.load_model returns a new object on every call: a handle nothing
\* refers to (the least such, so that equal histories give equal states)
InUse ==
    { cache[m] : m \in ModelIds } \cup { model[c] : c \in Callers }
        \cup { firstHandle[m] : m \in ModelIds }

FreshHandle ==
    CHOOSE h \in Handles \ InUse : \A g \in Handles \ InUse : h <= g

JobInit ==
    /\ FilesIdle
    /\ DEVICE \in {"cuda", "cpu"}
    /\ cache = [m \in ModelIds |-> NoHandle]
    /\ lock = [m \in ModelIds |-> 0]
    /\ pc = [c \in Callers |-> "idle"]
    /\ via = [c \in Callers |-> "none"]
    /\ model_size = [c \in Callers |-> "tiny"]
    /\ model = [c \in Callers |-> NoHandle]
    /\ pending = [c \in Callers |-> ""]
    /\ raised = [c \in Callers |-> NoErr]
    /\ result = [c \in Callers |-> "none"]
    /\ job_file = [c \in Callers |-> NoFile]
    /\ trace = [c \in Callers |-> <<>>]
    /\ firstHandle = [m \in ModelIds |-> NoHandle]
    /\ later = [c \in Callers |-> FALSE]
    /\ hit = [c \in Callers |-> FALSE]
    /\ loadDone = [m \in ModelIds |-> FALSE]
    /\ early = [c \in Callers |-> FALSE]
    /\ earlyLoads = [m \in ModelIds |-> 0]
    /\ okLoads = [m \in ModelIds |-> 0]

\* the model's state while only the validator runs
JobIdle ==
    /\ JobInit
    /\ DEVICE = "cpu"

\* history: a request for m was given handle h
Given(m, h) ==
    firstHandle' = IF firstHandle[m] = NoHandle
                   THEN [firstHandle EXCEPT ![m] = h]
                   ELSE firstHandle

(***************************************************************************)
(* st.cache_resource around load_whisper_model (transcriber.py:114): the   *)
(* value is looked up under the function's argument; a miss runs the body   *)
(* under that key's lock, after a second lookup; a returned value is        *)
(* stored, a raised exception stores nothing.                               *)
(***************************************************************************)

\* audio_recorder.process_recorded_audio up to its call load_whisper_model(m),
\* and the cache's first lookup
process_recorded_audio(c, m) ==
    /\ pc[c] = "idle"
    /\ via' = [via EXCEPT ![c] = "recorder"]
    /\ model_size' = [model_size EXCEPT ![c] = m]
    /\ hit' = [hit EXCEPT ![c] = cache[m] # NoHandle]
    /\ later' = [later EXCEPT ![c] = firstHandle[m] # NoHandle]
    /\ early' = [early EXCEPT ![c] = ~loadDone[m]]
    /\ IF cache[m] # NoHandle
       THEN /\ model' = [model EXCEPT ![c] = cache[m]]
            /\ pc' = [pc EXCEPT ![c] = "loaded"]
       ELSE /\ pc' = [pc EXCEPT ![c] = "wait_lock"]
            /\ UNCHANGED model
    /\ UNCHANGED <<DEVICE, cacheVars, pending, raised, result, job_file, trace,
                   firstHandle, loadDone, earlyLoads, okLoads, valVars>>

\* a lock that is handed out while another caller holds it
compute_value_lock_unguarded(c) ==
    LET m == model_size[c]
    IN  /\ pc[c] = "wait_lock"
        /\ IF cache[m] # NoHandle
           THEN /\ model' = [model EXCEPT ![c] = cache[m]]
                /\ pc' = [pc EXCEPT ![c] = "loaded"]
                /\ UNCHANGED lock
           ELSE /\ lock' = [lock EXCEPT ![m] = c]
                /\ pc' = [pc EXCEPT ![c] = "load"]
                /\ UNCHANGED model
        /\ UNCHANGED <<DEVICE, cache, via, model_size, pending, raised, result,
                       job_file, trace, histVars, valVars>>

\* the cache's load lock: a caller that missed waits for the key's lock,
\* looks the key up again, and only then runs the body
compute_value_lock(c) ==
    LET m == model_size[c]
    IN  /\ pc[c] = "wait_lock"
        /\ lock[m] = 0
        /\ IF cache[m] # NoHandle
           THEN /\ model' = [model EXCEPT ![c] = cache[m]]
                /\ pc' = [pc EXCEPT ![c] = "loaded"]
                /\ UNCHANGED lock
           ELSE /\ lock' = [lock EXCEPT ![m] = c]
                /\ pc' = [pc EXCEPT ![c] = "load"]
                /\ UNCHANGED model
        /\ UNCHANGED <<DEVICE, cache, via, model_size, pending, raised, result,
                       job_file, trace, histVars, valVars>>

\* the body returned h for key m: the cache stores it and frees the lock
\* only when the caller held it
CacheReturn(c, m, h) ==
    /\ cache' = [cache EXCEPT ![m] = h]
    /\ lock' = IF lock[m] = c THEN [lock EXCEPT ![m] = 0] ELSE lock
    /\ model' = [model EXCEPT ![c] = h]
    /\ okLoads' = [okLoads EXCEPT ![m] = @ + 1]
    /\ loadDone' = [loadDone EXCEPT ![m] = TRUE]
    /\ Given(m, h)

\* the body raised: nothing is stored, the lock is freed
CacheRaise(c, m) ==
    /\ lock' = IF lock[m] = c THEN [lock EXCEPT ![m] = 0] ELSE lock
    /\ loadDone' = [loadDone EXCEPT ![m] = TRUE]
    /\ UNCHANGED <<cache, model, okLoads, firstHandle>>

\* what line 127-130 of one call can do: return a model, or raise from
\* whisper.load_model, or (on cuda only) raise from torch.cuda.empty_cache
LoadOutcomes ==
    {"ok", "load_raises"} \cup (IF DEVICE = "cuda" THEN {"release_raises"} ELSE {})

\* torch.cuda.empty_cache() guarded by `if DEVICE == "cuda"`
EmptyCache(ok) ==
    IF DEVICE = "cuda" THEN <<Event("empty_cache", "", ok, NoHandle)>> ELSE <<>>

\* a loader without the fallback branch
HasFallbackNever(m) == FALSE

\* line 139: if model_size != "tiny"
HasFallback(m) == m # "tiny"

\* transcriber.load_whisper_model, lines 125-143 up to the fallback call: the
\* body run by the caller that holds the key's lock
load_whisper_model(c) ==
    LET m == model_size[c]
    IN  /\ pc[c] = "load"
        /\ \E out \in LoadOutcomes :
            /\ earlyLoads' = IF early[c] /\ out # "release_raises"
                             THEN [earlyLoads EXCEPT ![m] = @ + 1] ELSE earlyLoads
            /\ IF out = "ok"
               THEN \* lines 127-135: the model is returned, the cache stores it
                    /\ trace' = [trace EXCEPT ![c] = @ \o EmptyCache(TRUE) \o
                                   <<Event("load_model", m, TRUE, FreshHandle),
                                     Event("cache_store", m, TRUE, FreshHandle)>>]
                    /\ CacheReturn(c, m, FreshHandle)
                    /\ pc' = [pc EXCEPT ![c] = "loaded"]
                    /\ UNCHANGED <<pending, raised>>
               ELSE \* lines 136-143: st.error names model_size, then the fallback
                    /\ trace' = [trace EXCEPT ![c] = @ \o
                                   (IF out = "release_raises" THEN EmptyCache(FALSE)
                                    ELSE EmptyCache(TRUE) \o
                                         <<Event("load_model", m, FALSE, NoHandle)>>) \o
                                   <<Event("st.error", m, TRUE, NoHandle)>>]
                    /\ pending' = [pending EXCEPT ![c] =
                                     IF out = "release_raises" THEN CUDA_EXC ELSE LOAD_EXC]
                    /\ IF HasFallback(m)
                       THEN /\ pc' = [pc EXCEPT ![c] = "fallback"]
                            /\ UNCHANGED <<cacheVars, model, raised, okLoads, loadDone,
                                           firstHandle>>
                       ELSE \* raise e: the exception whisper (or torch) raised
                            /\ CacheRaise(c, m)
                            /\ raised' = [raised EXCEPT ![c] =
                                  Native(IF out = "release_raises" THEN CUDA_EXC
                                         ELSE LOAD_EXC)]
                            /\ pc' = [pc EXCEPT ![c] = "done"]
        /\ UNCHANGED <<DEVICE, via, model_size, result, job_file, later, hit, early,
                       valVars>>

\* line 141, return whisper.load_model("tiny", device=DEVICE), inside the
\* except block: what it returns is stored under model_size, what it raises
\* propagates as it is
load_fallback(c) ==
    LET m == model_size[c]
    IN  /\ pc[c] = "fallback"
        /\ \E ok \in BOOLEAN :
            IF ok
            THEN /\ trace' = [trace EXCEPT ![c] = @ \o
                                <<Event("load_model", "tiny", TRUE, FreshHandle),
                                  Event("cache_store", m, TRUE, FreshHandle)>>]
                 /\ CacheReturn(c, m, FreshHandle)
                 /\ pc' = [pc EXCEPT ![c] = "loaded"]
                 /\ UNCHANGED <<pending, raised>>
            ELSE /\ trace' = [trace EXCEPT ![c] = @ \o
                                <<Event("load_model", "tiny", FALSE, NoHandle)>>]
                 /\ CacheRaise(c, m)
                 /\ pending' = [pending EXCEPT ![c] = LOAD_EXC]
                 /\ raised' = [raised EXCEPT ![c] = Native(LOAD_EXC)]
                 /\ pc' = [pc EXCEPT ![c] = "done"]
        /\ UNCHANGED <<DEVICE, via, model_size, result, job_file, later, hit, early,
                       earlyLoads, valVars>>

(***************************************************************************)
(* transcriber.transcribe_audio, called by process_recorded_audio with the *)
(* model it was given.                                                     *)
(***************************************************************************)

\* lines 159-191: the options are built and model.transcribe is called
transcribe_audio_call(c) ==
    /\ pc[c] = "loaded"
    /\ \E ok \in BOOLEAN :
        /\ trace' = [trace EXCEPT ![c] = @ \o <<Event("transcribe", "", ok, NoHandle)>>]
        /\ IF ok
           THEN /\ pc' = [pc EXCEPT ![c] = "enhance"]
                /\ UNCHANGED pending
           ELSE /\ pc' = [pc EXCEPT ![c] = "except"]
                /\ pending' = [pending EXCEPT ![c] = TRANSCRIBE_EXC]
    /\ UNCHANGED <<DEVICE, cacheVars, via, model_size, model, raised, result, job_file,
                   histVars, valVars>>

\* lines 193-203, still inside the try: the result is enriched, the
\* accelerator memory is released, the result is returned
transcribe_audio_return(c) ==
    /\ pc[c] = "enhance"
    /\ \E ok \in (IF DEVICE = "cuda" THEN BOOLEAN ELSE {TRUE}) :
        /\ trace' = [trace EXCEPT ![c] = @ \o EmptyCache(ok)]
        /\ IF ok
           THEN /\ result' = [result EXCEPT ![c] = "enriched"]
                /\ pc' = [pc EXCEPT ![c] = "done"]
                /\ UNCHANGED pending
           ELSE /\ pending' = [pending EXCEPT ![c] = CUDA_EXC]
                /\ pc' = [pc EXCEPT ![c] = "except"]
                /\ UNCHANGED result
    /\ UNCHANGED <<DEVICE, cacheVars, via, model_size, model, raised, job_file,
                   histVars, valVars>>

\* lines 205-209, the except block: the memory is released, unguarded, and
\* Exception(f"Erro durante a transcrição: {str(e)}") is raised
transcribe_audio_except(c) ==
    /\ pc[c] = "except"
    /\ \E ok \in (IF DEVICE = "cuda" THEN BOOLEAN ELSE {TRUE}) :
        /\ trace' = [trace EXCEPT ![c] = @ \o EmptyCache(ok)]
        /\ raised' = [raised EXCEPT ![c] =
                        IF ok THEN Wrapped("Erro durante a transcricao", pending[c])
                        ELSE Native(CUDA_EXC)]
    /\ pc' = [pc EXCEPT ![c] = "done"]
    /\ UNCHANGED <<DEVICE, cacheVars, via, model_size, model, pending, result, job_file,
                   histVars, valVars>>

(***************************************************************************)
(* main.py: the "Transcrever Arquivo" button (main, lines 187-255), with   *)
(* main.py's own save_uploaded_file and transcribe_file.                   *)
(***************************************************************************)

\* lines 187-191 and main.save_uploaded_file (48-56): the upload is written
\* to a NamedTemporaryFile(delete=False); a failing write is reported with
\* st.error and None is returned, so that `if temp_path:` ends the job
main_save_uploaded_file(c, f, m) ==
    /\ pc[c] = "idle"
    /\ via' = [via EXCEPT ![c] = "main"]
    /\ model_size' = [model_size EXCEPT ![c] = m]
    /\ job_file' = [job_file EXCEPT ![c] = f]
    /\ later' = [later EXCEPT ![c] = firstHandle[m] # NoHandle]
    /\ \E ok \in BOOLEAN :
        /\ trace' = [trace EXCEPT ![c] = <<Event("tempfile", "", ok, NoHandle)>>]
        /\ IF ok
           THEN /\ pc' = [pc EXCEPT ![c] = "file_load"]
                /\ UNCHANGED result
           ELSE /\ pc' = [pc EXCEPT ![c] = "done"]
                /\ result' = [result EXCEPT ![c] = "None"]
    /\ UNCHANGED <<DEVICE, cacheVars, model, pending, raised, firstHandle, hit,
                   loadDone, early, earlyLoads, okLoads, valVars>>

\* transcribe_file, lines 58-65 and 82-84: whisper.load_model(model_name) on
\* every call; an exception is reported with st.error and None is returned
transcribe_file_load(c) ==
    LET m == model_size[c]
    IN  /\ pc[c] = "file_load"
        /\ \E ok \in BOOLEAN :
            IF ok
            THEN /\ trace' = [trace EXCEPT ![c] = @ \o
                                <<Event("load_model", m, TRUE, FreshHandle)>>]
                 /\ model' = [model EXCEPT ![c] = FreshHandle]
                 /\ Given(m, FreshHandle)
                 /\ pc' = [pc EXCEPT ![c] = "file_transcribe"]
                 /\ UNCHANGED result
            ELSE /\ trace' = [trace EXCEPT ![c] = @ \o
                                <<Event("load_model", m, FALSE, NoHandle)>>]
                 /\ result' = [result EXCEPT ![c] = "None"]
                 /\ pc' = [pc EXCEPT ![c] = "file_unlink"]
                 /\ UNCHANGED <<model, firstHandle>>
        /\ UNCHANGED <<DEVICE, cacheVars, via, model_size, pending, raised, job_file,
                       later, hit, loadDone, early, earlyLoads, okLoads, valVars>>

\* transcribe_file, lines 67-84: model.transcribe; the result with its
\* timing fields is returned, an exception gives None
transcribe_file_run(c) ==
    /\ pc[c] = "file_transcribe"
    /\ \E ok \in BOOLEAN :
        /\ trace' = [trace EXCEPT ![c] = @ \o <<Event("transcribe", "", ok, NoHandle)>>]
        /\ result' = [result EXCEPT ![c] = IF ok THEN "transcript" ELSE "None"]
    /\ pc' = [pc EXCEPT ![c] = "file_unlink"]
    /\ UNCHANGED <<DEVICE, cacheVars, via, model_size, model, pending, raised, job_file,
                   histVars, valVars>>

\* main, lines 250-255: finally: try: os.unlink(temp_path) except: pass
main_unlink(c) ==
    /\ pc[c] = "file_unlink"
    /\ \E ok \in BOOLEAN :
        trace' = [trace EXCEPT ![c] = @ \o <<Event("unlink", "", ok, NoHandle)>>]
    /\ pc' = [pc EXCEPT ![c] = "done"]
    /\ UNCHANGED <<DEVICE, cacheVars, via, model_size, model, pending, raised, result,
                   job_file, histVars, valVars>>

(***************************************************************************)
(* utils.save_uploaded_file (lines 48-82): validation, then the temporary  *)
(* file; every exception leaves as Exception("Erro ao salvar arquivo: ...") *)
(***************************************************************************)
save_uploaded_file(c, f) ==
    /\ pc[c] = "idle"
    /\ via' = [via EXCEPT ![c] = "stage"]
    /\ job_file' = [job_file EXCEPT ![c] = f]
    /\ LET validation == validate_audio_file(f)
       IN  IF ~validation.valid
           THEN /\ raised' = [raised EXCEPT ![c] =
                                Wrapped("Erro ao salvar arquivo", validation.error.msg)]
                /\ UNCHANGED <<trace, result>>
           ELSE \E ok \in BOOLEAN :
                /\ trace' = [trace EXCEPT ![c] = <<Event("tempfile", "", ok, NoHandle)>>]
                /\ IF ok
                   THEN /\ result' = [result EXCEPT ![c] = "temp_path"]
                        /\ UNCHANGED raised
                   ELSE /\ raised' = [raised EXCEPT ![c] =
                                        Wrapped("Erro ao salvar arquivo", WRITE_EXC)]
                        /\ UNCHANGED result
    /\ pc' = [pc EXCEPT ![c] = "done"]
    /\ UNCHANGED <<DEVICE, cacheVars, model_size, model, pending, histVars, valVars>>

\* the caller's job-local state is dropped
Reset(c) ==
    /\ pc' = [pc EXCEPT ![c] = "idle"]
    /\ via' = [via EXCEPT ![c] = "none"]
    /\ model_size' = [model_size EXCEPT ![c] = "tiny"]
    /\ model' = [model EXCEPT ![c] = NoHandle]
    /\ pending' = [pending EXCEPT ![c] = ""]
    /\ raised' = [raised EXCEPT ![c] = NoErr]
    /\ result' = [result EXCEPT ![c] = "none"]
    /\ job_file' = [job_file EXCEPT ![c] = NoFile]
    /\ trace' = [trace EXCEPT ![c] = <<>>]
    /\ later' = [later EXCEPT ![c] = FALSE]
    /\ hit' = [hit EXCEPT ![c] = FALSE]
    /\ early' = [early EXCEPT ![c] = FALSE]
    /\ UNCHANGED <<DEVICE, cacheVars, firstHandle, loadDone, earlyLoads, okLoads,
                   valVars>>

\* the script run ends; the next button press starts a new job
job_end(c) ==
    /\ pc[c] = "done"
    /\ Reset(c)

\* a call of load_whisper_model is over once it has returned or raised
load_call_end(c) ==
    /\ pc[c] \in {"loaded", "done"}
    /\ Reset(c)

\* the session whose button presses Spec follows, one job after another;
\* concurrent sessions are the matter of SpecCache
Session == CHOOSE c \in Callers : \A d \in Callers : c <= d

Next ==
    \/ \E m \in ModelIds : process_recorded_audio(Session, m)
    \/ compute_value_lock(Session)
    \/ load_whisper_model(Session)
    \/ load_fallback(Session)
    \/ transcribe_audio_call(Session)
    \/ transcribe_audio_return(Session)
    \/ transcribe_audio_except(Session)
    \/ \E f \in JobFiles, m \in ModelIds : main_save_uploaded_file(Session, f, m)
    \/ transcribe_file_load(Session)
    \/ transcribe_file_run(Session)
    \/ main_unlink(Session)
    \/ \E f \in JobFiles \cup {NoFile} : save_uploaded_file(Session, f)
    \/ job_end(Session)

Init == ValIdle /\ JobInit

\* one session, whole jobs
Spec == Init /\ [][Next]_vars

\* the model cache under concurrent callers of load_whisper_model
CacheNext ==
    \E c \in Callers :
        \/ \E m \in ModelIds : process_recorded_audio(c, m)
        \/ compute_value_lock(c)
        \/ load_whisper_model(c)
        \/ load_fallback(c)
        \/ load_call_end(c)

SpecCache == Init /\ [][CacheNext]_vars

\* the validator alone, run on every descriptor
InitValidate ==
    /\ uploaded_file \in Descriptors
    /\ validation_result = Unset
    /\ PureIdle
    /\ JobIdle

NextValidate == ValNext /\ UNCHANGED jobVars

SpecValidate == InitValidate /\ [][NextValidate]_vars

(***************************************************************************)
(* Part III.  The options handed to model.transcribe                       *)
(*            transcriber.transcribe_audio lines 159-186,                  *)
(*            utils.validate_advanced_options, main.transcribe_file 71-72. *)
(*                                                                         *)
(* Numbers with a fractional part are held in tenths: 0.5 is 5, -1.0 is    *)
(* -10.  A Python dict is a record when its keys are fixed; advanced_options, *)
(* whose keys vary, is a record of all four values with the set `has` of   *)
(* the keys that are present.                                              *)
(***************************************************************************)
QUALITY_PRESETS ==
    [p \in {"fast", "balanced", "high_quality"} |->
        CASE p = "fast" ->
                 [beam_size |-> 1, best_of |-> 1, temperature |-> 0,
                  compression_ratio_threshold |-> 24, logprob_threshold |-> -10,
                  no_speech_threshold |-> 6]
          [] p = "balanced" ->
                 [beam_size |-> 3, best_of |-> 3, temperature |-> 0,
                  compression_ratio_threshold |-> 20, logprob_threshold |-> -5,
                  no_speech_threshold |-> 5]
          [] p = "high_quality" ->
                 [beam_size |-> 5, best_of |-> 5, temperature |-> 0,
                  compression_ratio_threshold |-> 18, logprob_threshold |-> -3,
                  no_speech_threshold |-> 4]]

OptionKeys == {"quality_preset", "temperature", "beam_size", "confidence_threshold"}

\* advanced_options.get(k, default)
Get(o, k, default) == IF k \in o.has THEN o[k] ELSE default

Max(a, b) == IF a >= b THEN a ELSE b

Min(a, b) == IF a <= b THEN a ELSE b

\* a lookup that falls back to the fast preset
PresetConfigFast(quality_preset) ==
    IF quality_preset \in DOMAIN QUALITY_PRESETS
    THEN QUALITY_PRESETS[quality_preset]
    ELSE QUALITY_PRESETS["fast"]

\* line 166: QUALITY_PRESETS.get(quality_preset, QUALITY_PRESETS["balanced"])
PresetConfig(quality_preset) ==
    IF quality_preset \in DOMAIN QUALITY_PRESETS
    THEN QUALITY_PRESETS[quality_preset]
    ELSE QUALITY_PRESETS["balanced"]

\* utils.validate_advanced_options: all four keys are set, each from the
\* option given or from its default, the numbers clamped
validate_advanced_options(options) ==
    [has |-> OptionKeys,
     temperature |-> Max(0, Min(10, Get(options, "temperature", 0))),
     beam_size |-> Max(1, Min(10, Get(options, "beam_size", 3))),
     confidence_threshold |-> Max(0, Min(10, Get(options, "confidence_threshold", 5))),
     quality_preset |->
         IF Get(options, "quality_preset", "balanced") \notin
                {"fast", "balanced", "high_quality"}
         THEN "balanced"
         ELSE Get(options, "quality_preset", "balanced")]

\* transcriber.transcribe_audio, lines 165-186: the dict `options`.
\* {**a, **b} is b @@ a: the later keys win.
transcribe_audio_options(language, task, advanced_options) ==
    LET quality_preset == Get(advanced_options, "quality_preset", "balanced")
        preset_config == PresetConfig(quality_preset)
        options == preset_config @@
                   [task |-> task, fp16 |-> (DEVICE = "cuda"), verbose |-> FALSE,
                    word_timestamps |-> TRUE]
        with_temperature ==
            IF "temperature" \in advanced_options.has
            THEN [temperature |-> advanced_options.temperature] @@ options
            ELSE options
        with_beam_size ==
            IF "beam_size" \in advanced_options.has
            THEN [beam_size |-> advanced_options.beam_size] @@ with_temperature
            ELSE with_temperature
    IN  IF language # "auto"
        THEN [language |-> language] @@ with_beam_size
        ELSE with_beam_size

\* main.transcribe_file, line 71: the dict `options`; None is "None"
transcribe_file_options(language) ==
    [language |-> IF language # "auto" THEN language ELSE "None"]

\* the requests
PresetNames == {"fast", "balanced", "high_quality", "turbo"}

Temperatures == {-5, 0, 7, 10, 25}

BeamSizes == {0, 1, 5, 10, 50}

Thresholds == {-5, 0, 5, 10, 15}

Languages == {"auto", "pt"}

NoOptions ==
    [has |-> {}, quality_preset |-> "", temperature |-> 0, beam_size |-> 0,
     confidence_threshold |-> 0]

AdvancedOptions ==
    { [has |-> h,
       quality_preset |-> IF "quality_preset" \in h THEN q ELSE "",
       temperature |-> IF "temperature" \in h THEN t ELSE 0,
       beam_size |-> IF "beam_size" \in h THEN b ELSE 0,
       confidence_threshold |-> IF "confidence_threshold" \in h THEN ct ELSE 0] :
      h \in SUBSET OptionKeys, q \in PresetNames, t \in Temperatures,
      b \in BeamSizes, ct \in Thresholds }

\* a call transcribe_audio(path, model, language, task, advanced_options),
\* with the options as the request gave them or passed through
\* validate_advanced_options first; or a call transcribe_file(path, name, language)
OptionCalls ==
    [fn : {"transcribe_audio"}, language : Languages,
     task : {"transcribe", "translate"}, advanced_options : AdvancedOptions,
     validated : BOOLEAN]
    \cup
    [fn : {"transcribe_file"}, language : Languages, task : {"transcribe"},
     advanced_options : {NoOptions}, validated : {FALSE}]

InitOptions ==
    /\ args \in OptionCalls
    /\ returned = NotReturned
    /\ uploaded_file = NoFile
    /\ validation_result = Unset
    /\ JobInit

\* what transcribe_audio hands to model.transcribe, and the threshold line 256
\* reads for the filtering
Handed(language, task, advanced_options) ==
    [done |-> TRUE,
     options |-> transcribe_audio_options(language, task, advanced_options),
     confidence_threshold |-> Get(advanced_options, "confidence_threshold", 0)]

\* transcribe_audio called with the request's advanced_options
InvokeTranscribeAudio ==
    /\ args.fn = "transcribe_audio"
    /\ ~args.validated
    /\ ~returned.done
    /\ returned' = Handed(args.language, args.task, args.advanced_options)
    /\ UNCHANGED <<args, uploaded_file, validation_result, jobVars>>

\* transcribe_audio called with validate_advanced_options(advanced_options)
InvokeValidatedTranscribeAudio ==
    /\ args.fn = "transcribe_audio"
    /\ args.validated
    /\ ~returned.done
    /\ returned' = Handed(args.language, args.task,
                          validate_advanced_options(args.advanced_options))
    /\ UNCHANGED <<args, uploaded_file, validation_result, jobVars>>

\* main.transcribe_file: model.transcribe(file_path, **options)
InvokeTranscribeFile ==
    /\ args.fn = "transcribe_file"
    /\ ~returned.done
    /\ returned' = [done |-> TRUE, options |-> transcribe_file_options(args.language)]
    /\ UNCHANGED <<args, uploaded_file, validation_result, jobVars>>

NextOptions ==
    \/ InvokeTranscribeAudio
    \/ InvokeValidatedTranscribeAudio
    \/ InvokeTranscribeFile

SpecOptions == InitOptions /\ [][NextOptions]_vars

(***************************************************************************)
(* Part IV.  Time formatting and subtitles                                 *)
(*           utils.format_time, audio_recorder.generate_srt_from_segments  *)
(*           and format_time_for_srt, main.generate_srt and format_time_srt. *)
(*                                                                         *)
(* A time in seconds is a whole number of ticks, Second ticks to the        *)
(* second, so that a time has digits below the millisecond; the arithmetic  *)
(* on it is exact (the rounding of binary floating point is not modelled).  *)
(* A string is a sequence of one-character strings.                         *)
(***************************************************************************)
Second == 5000

DigitChars == <<"0", "1", "2", "3", "4", "5", "6", "7", "8", "9">>

RECURSIVE Decimal(_)
\* str(n) for n >= 0
Decimal(n) ==
    IF n < 10 THEN <<DigitChars[n + 1]>>
    ELSE Decimal(n \div 10) \o <<DigitChars[(n % 10) + 1]>>

RECURSIVE Zeros(_)
Zeros(k) == IF k <= 0 THEN <<>> ELSE <<"0">> \o Zeros(k - 1)

\* f"{n:0{width}d}" for n >= 0
Pad(n, width) == Zeros(width - Len(Decimal(n))) \o Decimal(n)

Whitespace == {" ", "\n"}

\* str.strip()
Strip(text) ==
    LET keep == { i \in 1..Len(text) : text[i] \notin Whitespace }
    IN  IF keep = {} THEN <<>>
        ELSE SubSeq(text, CHOOSE i \in keep : \A j \in keep : i <= j,
                          CHOOSE i \in keep : \A j \in keep : j <= i)

\* a format_time that rounds to the nearest second
format_time_rounded(seconds) ==
    IF seconds < 0 THEN <<"0", "0", ":", "0", "0", ":", "0", "0">>
    ELSE LET n == (seconds + Second \div 2) \div Second
             hours == n \div 3600
             remainder == n % 3600
         IN  Pad(hours, 2) \o <<":">> \o Pad(remainder \div 60, 2) \o <<":">>
                 \o Pad(remainder % 60, 2)

\* utils.format_time: int(seconds) drops the fraction
format_time(seconds) ==
    IF seconds < 0 THEN <<"0", "0", ":", "0", "0", ":", "0", "0">>
    ELSE LET n == seconds \div Second
             hours == n \div 3600
             remainder == n % 3600
             minutes == remainder \div 60
             secs == remainder % 60
         IN  Pad(hours, 2) \o <<":">> \o Pad(minutes, 2) \o <<":">> \o Pad(secs, 2)

\* a timestamp whose milliseconds are rounded to the nearest
format_time_for_srt_rounded(seconds) ==
    LET hours == (seconds \div Second) \div 3600
        minutes == ((seconds % (3600 * Second)) \div Second) \div 60
        secs == (seconds % (60 * Second)) \div Second
        milliseconds == ((seconds % Second) * 1000 + Second \div 2) \div Second
    IN  Pad(hours, 2) \o <<":">> \o Pad(minutes, 2) \o <<":">> \o Pad(secs, 2)
            \o <<",">> \o Pad(milliseconds, 3)

\* audio_recorder.format_time_for_srt, for seconds >= 0:
\* int(seconds // 3600), int((seconds % 3600) // 60), int(seconds % 60),
\* int((seconds % 1) * 1000)
format_time_for_srt(seconds) ==
    LET hours == (seconds \div Second) \div 3600
        minutes == ((seconds % (3600 * Second)) \div Second) \div 60
        secs == (seconds % (60 * Second)) \div Second
        milliseconds == ((seconds % Second) * 1000) \div Second
    IN  Pad(hours, 2) \o <<":">> \o Pad(minutes, 2) \o <<":">> \o Pad(secs, 2)
            \o <<",">> \o Pad(milliseconds, 3)

\* main.format_time_srt: the same four lines
format_time_srt(seconds) ==
    LET hours == (seconds \div Second) \div 3600
        minutes == ((seconds % (3600 * Second)) \div Second) \div 60
        secs == (seconds % (60 * Second)) \div Second
        milliseconds == ((seconds % Second) * 1000) \div Second
    IN  Pad(hours, 2) \o <<":">> \o Pad(minutes, 2) \o <<":">> \o Pad(secs, 2)
            \o <<",">> \o Pad(milliseconds, 3)

Arrow == <<" ", "-", "-", ">", " ">>

RECURSIVE SrtFrom(_, _)
\* audio_recorder.generate_srt_from_segments: the loop from index i on
SrtFrom(segments, i) ==
    IF i > Len(segments) THEN <<>>
    ELSE LET segment == segments[i]
             start_time == format_time_for_srt(segment.start)
             end_time == format_time_for_srt(segment.end)
             text == Strip(segment.text)
         IN  Decimal(i) \o <<"\n">>
                 \o start_time \o Arrow \o end_time \o <<"\n">>
                 \o text \o <<"\n", "\n">>
                 \o SrtFrom(segments, i + 1)

generate_srt_from_segments(segments) == SrtFrom(segments, 1)

RECURSIVE MainSrtFrom(_, _)
\* main.generate_srt: the loop from index i on
MainSrtFrom(segments, i) ==
    IF i > Len(segments) THEN <<>>
    ELSE LET segment == segments[i]
             start == format_time_srt(segment.start)
             end == format_time_srt(segment.end)
             text == Strip(segment.text)
         IN  Decimal(i) \o <<"\n">> \o start \o Arrow \o end \o <<"\n">>
                 \o text \o <<"\n", "\n">>
                 \o MainSrtFrom(segments, i + 1)

generate_srt(segments) == MainSrtFrom(segments, 1)

(***************************************************************************)
(* Reading a subtitle file back: the block grammar                          *)
(* index \n start --> end \n text \n \n, blocks one after another.  The     *)
(* repository holds no reader; this one follows the grammar the             *)
(* specification gives for the format.                                      *)
(***************************************************************************)

\* the first position from `from` on where s holds c, 0 if there is none
Find(s, c, from) ==
    LET hits == { i \in from..Len(s) : s[i] = c }
    IN  IF hits = {} THEN 0 ELSE CHOOSE i \in hits : \A j \in hits : i <= j

IsDigits(s) == s # <<>> /\ \A i \in 1..Len(s) : \E d \in 1..10 : DigitChars[d] = s[i]

DigitValue(ch) == (CHOOSE d \in 1..10 : DigitChars[d] = ch) - 1

RECURSIVE Number(_)
Number(s) ==
    IF s = <<>> THEN 0
    ELSE Number(SubSeq(s, 1, Len(s) - 1)) * 10 + DigitValue(s[Len(s)])

\* HH:MM:SS,mmm read as a time
ParseStamp(s) ==
    LET c1 == Find(s, ":", 1)
        c2 == IF c1 = 0 THEN 0 ELSE Find(s, ":", c1 + 1)
        c3 == IF c2 = 0 THEN 0 ELSE Find(s, ",", c2 + 1)
        hh == SubSeq(s, 1, c1 - 1)
        mm == SubSeq(s, c1 + 1, c2 - 1)
        ss == SubSeq(s, c2 + 1, c3 - 1)
        ms == SubSeq(s, c3 + 1, Len(s))
    IN  IF c3 = 0 \/ ~IsDigits(hh) \/ ~IsDigits(mm) \/ ~IsDigits(ss) \/ ~IsDigits(ms)
           \/ Len(hh) < 2 \/ Len(mm) # 2 \/ Len(ss) # 2 \/ Len(ms) # 3
        THEN [ok |-> FALSE, time |-> 0]
        ELSE [ok |-> TRUE,
              time |-> ((Number(hh) * 3600 + Number(mm) * 60 + Number(ss)) * 1000
                        + Number(ms)) * (Second \div 1000)]

\* the first position from `from` on where a blank line ends the text
FindBlank(s, from) ==
    LET hits == { i \in from..(Len(s) - 1) : s[i] = "\n" /\ s[i + 1] = "\n" }
    IN  IF hits = {} THEN 0 ELSE CHOOSE i \in hits : \A j \in hits : i <= j

RECURSIVE ParseSRT(_)
ParseSRT(content) ==
    IF content = <<>> THEN [ok |-> TRUE, triples |-> <<>>]
    ELSE LET n1 == Find(content, "\n", 1)
             n2 == IF n1 = 0 THEN 0 ELSE Find(content, "\n", n1 + 1)
             blank == IF n2 = 0 THEN 0 ELSE FindBlank(content, n2 + 1)
             index == SubSeq(content, 1, n1 - 1)
             timing == SubSeq(content, n1 + 1, n2 - 1)
             sp == Find(timing, " ", 1)
             start == ParseStamp(SubSeq(timing, 1, sp - 1))
             end == ParseStamp(SubSeq(timing, sp + Len(Arrow), Len(timing)))
             text == SubSeq(content, n2 + 1, blank - 1)
         IN  IF blank = 0 \/ ~IsDigits(index) \/ sp = 0
                \/ SubSeq(timing, sp, sp + Len(Arrow) - 1) # Arrow
                \/ ~start.ok \/ ~end.ok
             THEN [ok |-> FALSE, triples |-> <<>>]
             ELSE LET rest == ParseSRT(SubSeq(content, blank + 2, Len(content)))
                  IN  [ok |-> rest.ok,
                       triples |-> IF rest.ok
                                   THEN << <<start.time, end.time, text>> >> \o rest.triples
                                   ELSE <<>>]

(***************************************************************************)
(* The calls of SpecFormat.                                                *)
(***************************************************************************)
MaxSrtSegments == 3

\* seconds handed to format_time: -5, -0.0002, 0, 30, 59.9998, 90, 3599,
\* 3600, 3661, 86399.5, 360000 (a hundred hours)
FormatTimes ==
    { -5 * Second, -1, 0, 30 * Second, 60 * Second - 1, 90 * Second, 3599 * Second,
      3600 * Second, 3661 * Second, 86399 * Second + Second \div 2, 360000 * Second }

\* segments of a transcript, as far as the subtitles read them: 0 to 1.5 s,
\* 1.5 to 1.9998 s, 1.9998 to 65.25 s, 65.25 to 3599.9998 s, 3600 to
\* 3601.2344 s
SrtSegments ==
    { [start |-> 0, end |-> 7500, text |-> <<" ", "a", " ", "b">>],
      [start |-> 7500, end |-> 9999, text |-> <<"a", "\n", "b", " ">>],
      [start |-> 9999, end |-> 326250, text |-> <<>>],
      [start |-> 326250, end |-> 17999999, text |-> <<"a", "\n", "\n", "b">>],
      [start |-> 18000000, end |-> 18006172, text |-> <<"b">>] }

\* the lists of at most n segments of S, in non-decreasing order of start
SegmentLists(S, n) ==
    { l \in UNION { [1..k -> S] : k \in 0..n } :
        \A i \in 1..(Len(l) - 1) : l[i].start <= l[i + 1].start }

FormatCalls ==
    [fn : {"format_time"}, seconds : FormatTimes]
    \cup [fn : {"generate_srt_from_segments", "generate_srt"},
          segments : SegmentLists(SrtSegments, MaxSrtSegments)]

InitFormat ==
    /\ args \in FormatCalls
    /\ returned = NotReturned
    /\ uploaded_file = NoFile
    /\ validation_result = Unset
    /\ JobIdle

CallFormatTime ==
    /\ args.fn = "format_time"
    /\ ~returned.done
    /\ returned' = [done |-> TRUE, value |-> format_time(args.seconds)]
    /\ UNCHANGED <<args, uploaded_file, validation_result, jobVars>>

CallGenerateSrtFromSegments ==
    /\ args.fn = "generate_srt_from_segments"
    /\ ~returned.done
    /\ returned' = [done |-> TRUE, value |-> generate_srt_from_segments(args.segments)]
    /\ UNCHANGED <<args, uploaded_file, validation_result, jobVars>>

CallGenerateSrt ==
    /\ args.fn = "generate_srt"
    /\ ~returned.done
    /\ returned' = [done |-> TRUE, value |-> generate_srt(args.segments)]
    /\ UNCHANGED <<args, uploaded_file, validation_result, jobVars>>

NextFormat ==
    \/ CallFormatTime
    \/ CallGenerateSrtFromSegments
    \/ CallGenerateSrt

SpecFormat == InitFormat /\ [][NextFormat]_vars

(***************************************************************************)
(* Part V.  Enrichment of a raw transcript                                 *)
(*          transcriber.enhance_transcription_result,                      *)
(*          filter_segments_by_confidence, analyze_audio_characteristics   *)
(*                                                                         *)
(* A probability, a threshold and a confidence are in tenths; a quotient   *)
(* of two numbers is kept as the pair of them, so that no division loses   *)
(* anything.  A dict is a record with the set `has` of the keys present.   *)
(***************************************************************************)

Ratio(n, d) == [num |-> n, den |-> d]

\* 0.5, in tenths
Half == Ratio(5, 1)

\* comparisons of a quotient with a number of tenths
Above(q, tenths) == q.num > tenths * q.den

Below(q, tenths) == q.num < tenths * q.den

RECURSIVE Sum(_)
\* sum(...) of a list of numbers
Sum(numbers) == IF numbers = <<>> THEN 0 ELSE Head(numbers) + Sum(Tail(numbers))

\* len(text.split())
WordCount(text) ==
    Cardinality({ i \in 1..Len(text) :
                    /\ text[i] \notin Whitespace
                    /\ (i = 1 \/ text[i - 1] \in Whitespace) })

\* the words of a segment, none when the key is missing
WordsOf(segment) == IF segment.has_words THEN segment.words ELSE <<>>

RECURSIVE Probabilities(_)
\* lines 237-241: the probabilities of the words that carry one
Probabilities(words) ==
    IF words = <<>> THEN <<>>
    ELSE (IF Head(words).has_probability THEN <<Head(words).probability>> ELSE <<>>)
             \o Probabilities(Tail(words))

RECURSIVE ProbabilitiesOrHalf(_)
\* line 283: [word.get("probability", 0.5) for word in segment["words"]]
ProbabilitiesOrHalf(words) ==
    IF words = <<>> THEN <<>>
    ELSE <<IF Head(words).has_probability THEN Head(words).probability ELSE Half.num>>
             \o ProbabilitiesOrHalf(Tail(words))

RECURSIVE AllProbabilities(_)
AllProbabilities(segments) ==
    IF segments = <<>> THEN <<>>
    ELSE Probabilities(WordsOf(Head(segments))) \o AllProbabilities(Tail(segments))

RECURSIVE AllProbabilitiesOrHalf(_)
AllProbabilitiesOrHalf(segments) ==
    IF segments = <<>> THEN <<>>
    ELSE ProbabilitiesOrHalf(WordsOf(Head(segments))) \o AllProbabilitiesOrHalf(Tail(segments))

\* an average that counts a word without probability as 0.5
average_confidence_or_half(segments) ==
    LET counted == AllProbabilitiesOrHalf(segments)
    IN  IF Len(counted) > 0 THEN Ratio(Sum(counted), Len(counted)) ELSE Half

\* lines 233-243: total_confidence / confidence_count if confidence_count > 0 else 0.5
average_confidence(segments) ==
    LET counted == AllProbabilities(segments)
    IN  IF Len(counted) > 0 THEN Ratio(Sum(counted), Len(counted)) ELSE Half

\* a confidence that leaves the words without probability out of the mean
segment_confidence_scored(segment) ==
    LET word_confidences == Probabilities(WordsOf(segment))
    IN  IF segment.has_words /\ word_confidences # <<>>
        THEN Ratio(Sum(word_confidences), Len(word_confidences))
        ELSE Half

\* lines 280-285 of filter_segments_by_confidence
segment_confidence(segment) ==
    LET word_confidences == ProbabilitiesOrHalf(WordsOf(segment))
    IN  IF segment.has_words /\ word_confidences # <<>>
        THEN Ratio(Sum(word_confidences), Len(word_confidences))
        ELSE Half

RECURSIVE filter_segments_by_confidence(_, _)
filter_segments_by_confidence(segments, threshold) ==
    IF segments = <<>> THEN <<>>
    ELSE LET segment == Head(segments)
             rest == filter_segments_by_confidence(Tail(segments), threshold)
         IN  IF ~Below(segment_confidence(segment), threshold)
             THEN <<[segment EXCEPT !.has_confidence = TRUE,
                                    !.confidence = segment_confidence(segment)]>> \o rest
             ELSE rest

\* a filter that runs for a threshold of zero as well
FilterRequestedFromZero(confidence_threshold) == confidence_threshold >= 0

\* line 256: if confidence_threshold > 0
FilterRequested(confidence_threshold) == confidence_threshold > 0

\* a pause test that takes three seconds sharp for a silence
LongPauseFromThree(gap) == gap >= 3 * Second

\* line 330: if gap > 3.0
LongPause(gap) == gap > 3 * Second

DefaultCharacteristics ==
    [speech_rate |-> "normal", has_silence |-> FALSE,
     language_confidence |-> "medium", audio_quality |-> "good"]

analyze_audio_characteristics(res) ==
    IF "segments" \in res.has /\ res.segments # <<>>
    THEN LET segments == res.segments
             total_words == Sum([i \in 1..Len(segments) |-> WordCount(segments[i].text)])
             total_duration == Get(res, "audio_duration", 0)
             \* words_per_minute = (total_words / total_duration) * 60
             speech_rate ==
                 IF total_duration > 0
                 THEN IF total_words * 60 * Second < 120 * total_duration THEN "slow"
                      ELSE IF total_words * 60 * Second > 180 * total_duration THEN "fast"
                      ELSE "normal"
                 ELSE "normal"
             has_silence ==
                 \E i \in 1..(Len(segments) - 1) :
                     LongPause(segments[i + 1].start - segments[i].end)
             avg_confidence == Get(res, "average_confidence", Half)
             language_confidence ==
                 IF Above(avg_confidence, 8) THEN "high"
                 ELSE IF Below(avg_confidence, 4) THEN "low"
                 ELSE "medium"
             audio_quality ==
                 IF Above(avg_confidence, 7) THEN "excellent"
                 ELSE IF Above(avg_confidence, 5) THEN "good"
                 ELSE IF Above(avg_confidence, 3) THEN "fair"
                 ELSE "poor"
         IN  [speech_rate |-> speech_rate, has_silence |-> has_silence,
              language_confidence |-> language_confidence,
              audio_quality |-> audio_quality]
    ELSE DefaultCharacteristics

\* a guard that lets a duration of zero through
HasDurationFromZero(res) == Get(res, "audio_duration", 0) >= 0

\* line 250: if result.get("audio_duration", 0) > 0
HasDuration(res) == Get(res, "audio_duration", 0) > 0

\* what model.transcribe returns: text, segments, language; the other keys
\* are not there yet
RawResult(segments) ==
    [has |-> {"text", "segments", "language"},
     segments |-> segments,
     processing_time |-> 0,
     processing_time_formatted |-> <<>>,
     advanced_options_used |-> NoOptions,
     average_confidence |-> Half,
     audio_duration |-> 0,
     audio_duration_formatted |-> <<>>,
     processing_speed_ratio |-> Ratio(0, 1),
     realtime_factor |-> Ratio(0, 1),
     filtered_segments_count |-> 0,
     audio_characteristics |-> DefaultCharacteristics]

\* the function returns the result, or raises where line 251 divides by a
\* processing_time of zero; the dict is then as the lines before left it
enhance_transcription_result(res, processing_time, advanced_options) ==
    LET timed ==
            [res EXCEPT
                !.has = @ \cup {"processing_time", "processing_time_formatted",
                                "advanced_options_used"},
                !.processing_time = processing_time,
                !.processing_time_formatted = format_time(processing_time),
                !.advanced_options_used = advanced_options]
        measured == "segments" \in res.has
        segments == res.segments
        averaged ==
            [timed EXCEPT !.has = @ \cup {"average_confidence"},
                          !.average_confidence = average_confidence(segments)]
        lasting ==
            IF segments # <<>>
            THEN [averaged EXCEPT
                    !.has = @ \cup {"audio_duration", "audio_duration_formatted"},
                    !.audio_duration = segments[Len(segments)].end,
                    !.audio_duration_formatted = format_time(segments[Len(segments)].end)]
            ELSE averaged
        has_duration == HasDuration(lasting)
        with_ratio ==
            IF has_duration
            THEN [lasting EXCEPT
                    !.has = @ \cup {"processing_speed_ratio"},
                    !.processing_speed_ratio = Ratio(processing_time, lasting.audio_duration)]
            ELSE lasting
        with_factor ==
            IF has_duration
            THEN [with_ratio EXCEPT
                    !.has = @ \cup {"realtime_factor"},
                    !.realtime_factor = Ratio(lasting.audio_duration, processing_time)]
            ELSE with_ratio
        confidence_threshold == Get(advanced_options, "confidence_threshold", 0)
        filtered ==
            IF FilterRequested(confidence_threshold)
            THEN LET kept == filter_segments_by_confidence(segments, confidence_threshold)
                 IN  [with_factor EXCEPT
                        !.has = @ \cup {"filtered_segments_count"},
                        !.segments = kept,
                        !.filtered_segments_count = Len(kept)]
            ELSE with_factor
        stats == IF measured THEN filtered ELSE timed
    IN  IF measured /\ has_duration /\ processing_time = 0
        THEN [raised |-> "ZeroDivisionError", result |-> with_ratio]
        ELSE [raised |-> "none",
              result |-> [stats EXCEPT
                            !.has = @ \cup {"audio_characteristics"},
                            !.audio_characteristics = analyze_audio_characteristics(stats)]]

(***************************************************************************)
(* The calls of SpecEnrich.                                                *)
(***************************************************************************)
MaxSegments == 3

Spoken(p) == [has_probability |-> TRUE, probability |-> p]

Unscored == [has_probability |-> FALSE, probability |-> 0]

NoConfidence == Ratio(0, 1)

\* segments as model.transcribe gives them, with word_timestamps on or off:
\* 0-0 s; 0-2 s; 2-5 s; 5-6 s (3.0 s after the second); 5.0002-10 s; 10-10 s
Segments ==
    { [start |-> 0, end |-> 0, text |-> <<>>,
       has_words |-> TRUE, words |-> <<Spoken(4)>>,
       has_confidence |-> FALSE, confidence |-> NoConfidence],
      [start |-> 0, end |-> 2 * Second,
       text |-> <<" ", "a", " ", "b", " ", "a", " ", "b", " ", "a">>,
       has_words |-> TRUE, words |-> <<Spoken(9), Spoken(10)>>,
       has_confidence |-> FALSE, confidence |-> NoConfidence],
      [start |-> 2 * Second, end |-> 5 * Second, text |-> <<" ", "a">>,
       has_words |-> TRUE, words |-> <<Spoken(2), Unscored>>,
       has_confidence |-> FALSE, confidence |-> NoConfidence],
      [start |-> 5 * Second, end |-> 6 * Second, text |-> <<" ", "b", "\n", "a">>,
       has_words |-> FALSE, words |-> <<>>,
       has_confidence |-> FALSE, confidence |-> NoConfidence],
      [start |-> 5 * Second + 1, end |-> 10 * Second, text |-> <<" ", "a", " ", "b">>,
       has_words |-> TRUE, words |-> <<>>,
       has_confidence |-> FALSE, confidence |-> NoConfidence],
      [start |-> 10 * Second, end |-> 10 * Second, text |-> <<" ">>,
       has_words |-> TRUE, words |-> <<Unscored, Spoken(0)>>,
       has_confidence |-> FALSE, confidence |-> NoConfidence] }

\* measured processing times: 0, 0.5 s, 20 s
ProcessingTimes == {0, Second \div 2, 20 * Second}

\* the advanced_options the enrichment reads: confidence_threshold or none
EnrichOptions ==
    {NoOptions} \cup
    { [NoOptions EXCEPT !.has = {"confidence_threshold"}, !.confidence_threshold = ct] :
        ct \in {0, 3, 5, 8} }

EnrichCalls ==
    [fn : {"enhance_transcription_result"},
     result : { RawResult(l) : l \in SegmentLists(Segments, MaxSegments) },
     processing_time : ProcessingTimes,
     advanced_options : EnrichOptions]

InitEnrich ==
    /\ args \in EnrichCalls
    /\ returned = NotReturned
    /\ uploaded_file = NoFile
    /\ validation_result = Unset
    /\ JobIdle

CallEnhance ==
    /\ args.fn = "enhance_transcription_result"
    /\ ~returned.done
    /\ LET outcome == enhance_transcription_result(args.result, args.processing_time,
                                                   args.advanced_options)
       IN  returned' = [done |-> TRUE, raised |-> outcome.raised, result |-> outcome.result]
    /\ UNCHANGED <<args, uploaded_file, validation_result, jobVars>>

NextEnrich == CallEnhance

SpecEnrich == InitEnrich /\ [][NextEnrich]_vars

(***************************************************************************)
(* Part VI.  The device profile                                            *)
(*           transcriber.optimize_for_device, Config.get_device_config     *)
(*                                                                         *)
(* A memory size is a whole number of tenths of a gigabyte; a multiplier   *)
(* is in tenths.                                                           *)
(***************************************************************************)
GB == 10

\* transcriber.optimize_for_device, gpu_memory being what
\* torch.cuda.get_device_properties(0).total_memory / 1024**3 gives
optimize_for_device(device, gpu_memory) ==
    LET config == [device |-> device, recommended_models |-> <<>>,
                   max_file_size_mb |-> 100, parallel_processing |-> FALSE]
    IN  IF device = "cuda"
        THEN IF gpu_memory >= 8 * GB
             THEN [config EXCEPT !.recommended_models = <<"medium", "large-v2">>,
                                 !.max_file_size_mb = 500,
                                 !.parallel_processing = TRUE]
             ELSE IF gpu_memory >= 4 * GB
             THEN [config EXCEPT !.recommended_models = <<"small", "medium">>,
                                 !.max_file_size_mb = 250]
             ELSE [config EXCEPT !.recommended_models = <<"tiny", "base", "small">>,
                                 !.max_file_size_mb = 100]
        ELSE [config EXCEPT !.recommended_models = <<"tiny", "base">>,
                            !.max_file_size_mb = 50]

\* config.PerformanceConfig.PERFORMANCE_ESTIMATES
PERFORMANCE_ESTIMATES ==
    [cpu_basic |-> [multiplier |-> 80, max_file_size_mb |-> 50,
                    recommended_models |-> <<"tiny", "base">>],
     cpu_powerful |-> [multiplier |-> 40, max_file_size_mb |-> 200,
                       recommended_models |-> <<"base", "small">>],
     gpu_4gb |-> [multiplier |-> 10, max_file_size_mb |-> 500,
                  recommended_models |-> <<"small", "medium">>],
     gpu_8gb_plus |-> [multiplier |-> 5, max_file_size_mb |-> 2000,
                       recommended_models |-> <<"medium", "large-v2">>]]

\* memory_gb = None
NoMemory == -1

\* `if memory_gb and ...`: None and 0 are false
Truthy(memory_gb) == memory_gb # NoMemory /\ memory_gb # 0

\* Config.get_device_config
get_device_config(device_type, memory_gb) ==
    IF device_type = "cpu"
    THEN IF Truthy(memory_gb) /\ memory_gb > 8 * GB
         THEN PERFORMANCE_ESTIMATES["cpu_powerful"]
         ELSE PERFORMANCE_ESTIMATES["cpu_basic"]
    ELSE IF Truthy(memory_gb) /\ memory_gb >= 8 * GB
         THEN PERFORMANCE_ESTIMATES["gpu_8gb_plus"]
         ELSE PERFORMANCE_ESTIMATES["gpu_4gb"]

(***************************************************************************)
(* The calls of SpecDevice.                                                *)
(***************************************************************************)
MaxMemoryGB == 12

Memories == 0..(MaxMemoryGB * GB)

DeviceCalls ==
    [fn : {"optimize_for_device"}, gpu_memory : Memories]
    \cup [fn : {"get_device_config"}, device_type : {"cpu", "cuda"},
          memory_gb : Memories \cup {NoMemory}]

InitDevice ==
    /\ args \in DeviceCalls
    /\ returned = NotReturned
    /\ uploaded_file = NoFile
    /\ validation_result = Unset
    /\ JobInit

\* DEVICE_CONFIG = optimize_for_device(), with the DEVICE fixed at import
CallOptimizeForDevice ==
    /\ args.fn = "optimize_for_device"
    /\ ~returned.done
    /\ returned' = [done |-> TRUE, config |-> optimize_for_device(DEVICE, args.gpu_memory)]
    /\ UNCHANGED <<args, uploaded_file, validation_result, jobVars>>

CallGetDeviceConfig ==
    /\ args.fn = "get_device_config"
    /\ ~returned.done
    /\ returned' = [done |-> TRUE,
                    config |-> get_device_config(args.device_type, args.memory_gb)]
    /\ UNCHANGED <<args, uploaded_file, validation_result, jobVars>>

NextDevice ==
    \/ CallOptimizeForDevice
    \/ CallGetDeviceConfig

SpecDevice == InitDevice /\ [][NextDevice]_vars

(***************************************************************************)
(* Part VII.  utils.clean_filename                                         *)
(*                                                                         *)
(* A file name is a sequence of characters without a path separator.       *)
(***************************************************************************)

\* the characters \w matches, among those of NameChars
WordChars == {"a", "1", "_"}

\* the class [\w\-_\.]
KeptChars == WordChars \cup {"-", "_", "."}

\* Path(filename).name: "." names nothing
PathName(filename) == IF filename = <<".">> THEN <<>> ELSE filename

\* name.rfind('.') + 1, 0 when there is no dot
LastDot(name) ==
    LET dots == { i \in 1..Len(name) : name[i] = "." }
    IN  IF dots = {} THEN 0 ELSE CHOOSE i \in dots : \A j \in dots : j <= i

\* pathlib: the suffix starts at the last dot, unless that dot opens or
\* closes the name
SplitsAt(name) == 1 < LastDot(name) /\ LastDot(name) < Len(name)

\* Path(filename).stem
Stem(filename) ==
    LET name == PathName(filename)
    IN  IF SplitsAt(name) THEN SubSeq(name, 1, LastDot(name) - 1) ELSE name

\* Path(filename).suffix
Suffix(filename) ==
    LET name == PathName(filename)
    IN  IF SplitsAt(name) THEN SubSeq(name, LastDot(name), Len(name)) ELSE <<>>

\* re.sub(r'[^\w\-_\.]', '_', name_part)
Substituted(name_part) ==
    [i \in 1..Len(name_part) |-> IF name_part[i] \in KeptChars THEN name_part[i] ELSE "_"]

RECURSIVE Collapsed(_)
\* re.sub(r'_+', '_', clean_name)
Collapsed(clean_name) ==
    IF Len(clean_name) < 2 THEN clean_name
    ELSE IF clean_name[1] = "_" /\ clean_name[2] = "_"
         THEN Collapsed(Tail(clean_name))
         ELSE <<Head(clean_name)>> \o Collapsed(Tail(clean_name))

\* clean_name.strip('_')
StripUnderscores(clean_name) ==
    LET keep == { i \in 1..Len(clean_name) : clean_name[i] # "_" }
    IN  IF keep = {} THEN <<>>
        ELSE SubSeq(clean_name, CHOOSE i \in keep : \A j \in keep : i <= j,
                                CHOOSE i \in keep : \A j \in keep : j <= i)

AudioFile == <<"a", "u", "d", "i", "o", "_", "f", "i", "l", "e">>

clean_filename(filename) ==
    LET name_part == Stem(filename)
        extension == Suffix(filename)
        clean_name == StripUnderscores(Collapsed(Substituted(name_part)))
    IN  (IF clean_name = <<>> THEN AudioFile ELSE clean_name) \o extension

(***************************************************************************)
(* The calls of SpecNames.                                                 *)
(***************************************************************************)
MaxNameLen == 5

\* a letter, a digit, the three punctuation marks the class keeps, and a
\* character it does not
NameChars == {"a", "1", "_", "-", ".", "@"}

Filenames == UNION { [1..n -> NameChars] : n \in 0..MaxNameLen }

InitNames ==
    /\ args \in [fn : {"clean_filename"}, filename : Filenames]
    /\ returned = NotReturned
    /\ uploaded_file = NoFile
    /\ validation_result = Unset
    /\ JobIdle

CallCleanFilename ==
    /\ args.fn = "clean_filename"
    /\ ~returned.done
    /\ returned' = [done |-> TRUE, value |-> clean_filename(args.filename)]
    /\ UNCHANGED <<args, uploaded_file, validation_result, jobVars>>

NextNames == CallCleanFilename

SpecNames == InitNames /\ [][NextNames]_vars

(***************************************************************************)
(* Part VIII.  Temporary files                                             *)
(*             utils.save_uploaded_file and main.save_uploaded_file step   *)
(*             by step, and the recording session of audio_recorder        *)
(*                                                                         *)
(* A temporary file is a positive number, its path; every                  *)
(* NamedTemporaryFile(delete=False) makes a new one.                       *)
(***************************************************************************)
MaxTempFiles == 3

\* the path tempfile gives next: one that was never given
FreshPath == CHOOSE p \in 1..(Cardinality(created) + 1) : p \notin created

\* what the operating system does to one staging call: whether
\* NamedTemporaryFile, uploaded_file.getvalue() and tmp_file.write return or
\* raise, and whether the file is still found by the check of line 76
StagingIO == [create_ok : BOOLEAN, getvalue_ok : BOOLEAN, write_ok : BOOLEAN,
              found : BOOLEAN]

StagingFailed(message) == Wrapped("Erro ao salvar arquivo", message)

\* utils.save_uploaded_file: what it raises or returns, the file it made
\* and whether that file is left on disk
staged_by_utils(file, io) ==
    LET validation == validate_audio_file(file)
        path == FreshPath
    IN  IF ~validation.valid
        THEN [raised |-> StagingFailed(validation.error.msg), value |-> NoPath,
              made |-> {}, left |-> {}]
        ELSE IF ~io.create_ok
        THEN [raised |-> StagingFailed("NamedTemporaryFile failed"), value |-> NoPath,
              made |-> {}, left |-> {}]
        ELSE IF ~io.getvalue_ok
        THEN [raised |-> StagingFailed("getvalue failed"), value |-> NoPath,
              made |-> {path}, left |-> {path}]
        ELSE IF ~io.write_ok
        THEN [raised |-> StagingFailed(WRITE_EXC), value |-> NoPath,
              made |-> {path}, left |-> {path}]
        ELSE IF ~io.found
        THEN [raised |-> StagingFailed("Arquivo temporário não foi criado corretamente"),
              value |-> NoPath, made |-> {path}, left |-> {}]
        ELSE [raised |-> NoErr, value |-> path, made |-> {path}, left |-> {path}]

\* main.save_uploaded_file: every exception is reported with st.error and
\* None is returned
staged_by_main(file, io) ==
    LET path == FreshPath
    IN  IF ~file.present \/ ~io.create_ok
        THEN [raised |-> NoErr, value |-> NoPath, made |-> {}, left |-> {}]
        ELSE IF ~io.getvalue_ok \/ ~io.write_ok
        THEN [raised |-> NoErr, value |-> NoPath, made |-> {path}, left |-> {path}]
        ELSE [raised |-> NoErr, value |-> path, made |-> {path}, left |-> {path}]

StagingCalls ==
    [fn : {"utils.save_uploaded_file", "main.save_uploaded_file"},
     uploaded_file : JobFiles \cup {NoFile}, io : StagingIO]

InitStaging ==
    /\ args \in StagingCalls
    /\ returned = NotReturned
    /\ uploaded_file = NoFile
    /\ validation_result = Unset
    /\ JobIdle

\* the call ends: the file it left is on disk, the caller has what it
\* raised or returned
Staged(outcome) ==
    /\ ~returned.done
    /\ returned' = [done |-> TRUE, raised |-> outcome.raised, value |-> outcome.value]
    /\ disk' = disk \cup outcome.left
    /\ created' = created \cup outcome.made
    /\ UNCHANGED <<args, uploaded_file, validation_result, recording_state, handler,
                   sessionVars>>

CallUtilsSaveUploadedFile ==
    /\ args.fn = "utils.save_uploaded_file"
    /\ Staged(staged_by_utils(args.uploaded_file, args.io))

CallMainSaveUploadedFile ==
    /\ args.fn = "main.save_uploaded_file"
    /\ Staged(staged_by_main(args.uploaded_file, args.io))

NextStaging ==
    \/ CallUtilsSaveUploadedFile
    \/ CallMainSaveUploadedFile

SpecStaging == InitStaging /\ [][NextStaging]_vars

(***************************************************************************)
(* The recording session: the buttons of show_audio_recorder and the       *)
(* automatic stop, each a rerun of the page.  A handler's exception is     *)
(* caught by its own except clause and shown with st.error.                *)
(***************************************************************************)

Ran(name, made) == handler' = [name |-> name, made |-> made]

recorderFrame == <<uploaded_file, validation_result, pureVars, sessionVars>>

\* "Iniciar Gravação", shown while not recording: lines 160-168 update
\* is_recording and start_time and keep recorded_file
start_recording ==
    /\ ~recording_state.is_recording
    /\ recording_state' = [recording_state EXCEPT !.is_recording = TRUE,
                                                  !.start_time = TRUE]
    /\ Ran("start_recording", NoPath)
    /\ UNCHANGED <<disk, created, recorderFrame>>

\* "Parar Gravação", shown while recording: create_sample_audio_file makes a
\* NamedTemporaryFile(delete=False) and writes the samples into it; if
\* either raises, the except clause of line 197 leaves the state as it was
stop_recording ==
    /\ recording_state.is_recording
    /\ Cardinality(created) < MaxTempFiles
    /\ \E create_ok, write_ok \in BOOLEAN :
        LET audio_file == FreshPath
        IN  IF ~create_ok
            THEN /\ Ran("stop_recording", NoPath)
                 /\ UNCHANGED <<disk, created, recording_state>>
            ELSE /\ disk' = disk \cup {audio_file}
                 /\ created' = created \cup {audio_file}
                 /\ IF write_ok
                    THEN /\ recording_state' =
                               [recording_state EXCEPT !.is_recording = FALSE,
                                                       !.recorded_file = audio_file]
                         /\ Ran("stop_recording", audio_file)
                    ELSE /\ Ran("stop_recording", NoPath)
                         /\ UNCHANGED recording_state
    /\ UNCHANGED recorderFrame

\* lines 104-107: while recording, once elapsed >= max_duration
auto_stop ==
    /\ recording_state.is_recording
    /\ recording_state.start_time
    /\ recording_state' = [recording_state EXCEPT !.is_recording = FALSE]
    /\ Ran("auto_stop", NoPath)
    /\ UNCHANGED <<disk, created, recorderFrame>>

\* "Nova Gravação", shown with a recorded_file while not recording: the file
\* is unlinked if it exists, then the state is the initial one; if
\* os.unlink raises, the except clause of line 223 leaves the state
reset_recording ==
    /\ recording_state.recorded_file # NoPath
    /\ ~recording_state.is_recording
    /\ \E unlink_ok \in BOOLEAN :
        LET file_path == recording_state.recorded_file
        IN  IF file_path \in disk /\ ~unlink_ok
            THEN UNCHANGED <<disk, recording_state>>
            ELSE /\ disk' = disk \ {file_path}
                 /\ recording_state' = NoRecording
    /\ Ran("reset_recording", NoPath)
    /\ UNCHANGED <<created, recorderFrame>>

\* "Transcrever", shown with a recorded_file: process_recorded_audio reads
\* the file; neither it nor the job it runs touches recording_state or
\* unlinks anything
process_recorded_audio_files ==
    /\ recording_state.recorded_file # NoPath
    /\ Ran("process_recorded_audio", NoPath)
    /\ UNCHANGED <<disk, created, recording_state, recorderFrame>>

InitRecorder ==
    /\ ValIdle
    /\ JobIdle

NextRecorder ==
    \/ start_recording
    \/ stop_recording
    \/ auto_stop
    \/ reset_recording
    \/ process_recorded_audio_files

SpecRecorder == InitRecorder /\ [][NextRecorder]_vars

(***************************************************************************)
(* Properties.                                                             *)
(***************************************************************************)

\* the whisper.load_model calls of c's job, in order
Loads(c) ==
    LET IsLoad(e) == e.op = "load_model"
    IN  SelectSeq(trace[c], IsLoad)

\* the positions of c's trace that hold a call of op
At(c, op) == { i \in DOMAIN trace[c] : trace[c][i].op = op }

\* the extension validate_audio_file looks at
ExtensionOf(d) == Lower(PathSuffix(d.name))

\* the checks of the validator as the specification lists them, in order
CheckFails(k, d) ==
    CASE k = 1 -> ~d.present
      [] k = 2 -> d.name = <<>>
      [] k = 3 -> d.size < MIN_FILE_SIZE_KB * KB
      [] k = 4 -> d.size > MAX_FILE_SIZE_MB * MB
      [] k = 5 -> d.type # "" /\ d.type \notin DOMAIN SUPPORTED_AUDIO_TYPES
      [] k = 6 -> ExtensionOf(d) # <<>> /\ ExtensionOf(d) \notin supported_extensions
      [] k = 7 -> ExtensionOf(d) \in SUSPICIOUS_EXTENSIONS

CheckError(k) ==
    CASE k = 1 -> "Nenhum arquivo foi carregado"
      [] k = 2 -> "Nome do arquivo esta vazio"
      [] k = 3 -> "Arquivo muito pequeno"
      [] k = 4 -> "Arquivo muito grande"
      [] k = 5 -> "Tipo de arquivo nao suportado"
      [] k = 6 -> "Extensao nao suportada"
      [] k = 7 -> "Tipo de arquivo nao permitido por seguranca"

FailedChecks(d) == { k \in 1..7 : CheckFails(k, d) }

FirstFailed(d) == CHOOSE k \in FailedChecks(d) : \A j \in FailedChecks(d) : k <= j

\* C9 (validator check order): the result of validate_audio_file is valid
\* when the descriptor passes the seven checks taken in the order present,
\* named, size >= 1KB, size <= maximum, MIME supported if given, extension
\* supported if present, extension not denylisted, and otherwise carries the
\* error of the first check in that order the descriptor fails; a present,
\* named file over the maximum is "too large" whatever its type, and a file
\* whose extension is denylisted is never valid.
C9_CheckOrder ==
    validation_result # Unset =>
        LET d == uploaded_file
        IN  /\ IF FailedChecks(d) = {}
               THEN validation_result.valid
               ELSE /\ ~validation_result.valid
                    /\ validation_result.error.msg = CheckError(FirstFailed(d))
            /\ (d.present /\ d.name # <<>> /\ d.size > MAX_FILE_SIZE_MB * MB)
                   => /\ ~validation_result.valid
                      /\ validation_result.error.msg = "Arquivo muito grande"
            /\ ExtensionOf(d) \in SUSPICIOUS_EXTENSIONS => ~validation_result.valid

\* an over-size file of an unsupported type was reported as too large
C9_Witness ==
    /\ validation_result # Unset
    /\ uploaded_file.present
    /\ uploaded_file.size > MAX_FILE_SIZE_MB * MB
    /\ uploaded_file.type = "text/plain"
    /\ ExtensionOf(uploaded_file) = <<".", "exe">>
    /\ ~validation_result.valid
    /\ validation_result.error.msg = "Arquivo muito grande"

LoadFailed(c) ==
    /\ via[c] = "recorder"
    /\ pc[c] = "done"
    /\ At(c, "transcribe") = {}

\* the job of c called model.transcribe and the call raised / returned
RecognitionFailed(c) ==
    /\ via[c] = "recorder"
    /\ \E i \in At(c, "transcribe") : ~trace[c][i].ok

RecognitionSucceeded(c) ==
    /\ via[c] = "recorder"
    /\ \E i \in At(c, "transcribe") : trace[c][i].ok

\* C1 (model cache reuse): a job that asks for model identifier m after a
\* load of m has succeeded once does not call whisper.load_model again and
\* is given the very handle the first load returned.
C1_CacheReuse ==
    \A c \in Callers :
        later[c] =>
            /\ Loads(c) = <<>>
            /\ model[c] # NoHandle => model[c] = firstHandle[model_size[c]]

\* C2 as stated (concurrent loads): for the callers that asked for m before
\* the first load of m completed, whisper.load_model(m) runs at most once and
\* those that have been answered all hold one handle; a caller that found m
\* loaded never waits on the load lock.
C2_LoadsAtMostOnce ==
    /\ \A m \in ModelIds : earlyLoads[m] <= 1
    /\ \A c, d \in Callers :
          ( /\ c # d
            /\ model_size[c] = model_size[d]
            /\ early[c] /\ pc[c] \in {"loaded", "done"}
            /\ early[d] /\ pc[d] \in {"loaded", "done"} )
          => model[c] = model[d]
    /\ \A c \in Callers : hit[c] => pc[c] \notin {"wait_lock", "load", "fallback"}

\* C2 (concurrent loads), amended: at any moment at most one caller runs the
\* loader for a model identifier; at most one load per identifier is ever
\* stored, so every caller that is given a handle for m is given the one
\* cached handle; a failed load stores nothing and lets the next waiting
\* caller load; a caller that found m loaded never waits on the load lock.
C2_OneLoadAtATime ==
    /\ \A c, d \in Callers :
          (c # d /\ pc[c] \in {"load", "fallback"} /\ pc[d] \in {"load", "fallback"})
              => model_size[c] # model_size[d]
    /\ \A m \in ModelIds : okLoads[m] <= 1
    /\ \A c \in Callers :
          (via[c] = "recorder" /\ model[c] # NoHandle) =>
              /\ model[c] = cache[model_size[c]]
              /\ model[c] = firstHandle[model_size[c]]
    /\ \A c \in Callers : hit[c] => pc[c] \notin {"wait_lock", "load", "fallback"}

\* two callers asked for the same identifier before its first load completed,
\* neither found it loaded, and both hold the same handle
C2_Witness ==
    \E c, d \in Callers :
        /\ c # d
        /\ model_size[c] = model_size[d]
        /\ early[c] /\ early[d]
        /\ ~hit[c] /\ ~hit[d]
        /\ pc[c] = "loaded" /\ pc[d] = "loaded"
        /\ Loads(c) # <<>> /\ Loads(d) = <<>>
        /\ model[c] # NoHandle
        /\ model[c] = model[d]
        /\ earlyLoads[model_size[c]] = 1

\* C3 (load fallback): no job makes more than two whisper.load_model calls;
\* when the load of an identifier other than tiny fails, the loader makes
\* exactly one more call, with "tiny", and when that call succeeds the job
\* is given its handle and the cache holds it under the identifier asked for;
\* when the load of tiny fails there is no second call and the job fails.
C3_Fallback ==
    \A c \in Callers :
        via[c] = "recorder" =>
            LET m == model_size[c]
                L == Loads(c)
            IN  /\ Len(L) <= 2
                /\ Len(L) = 2 => (m # "tiny" /\ L[1].arg = m /\ ~L[1].ok)
                /\ (Len(L) >= 1 /\ L[1].arg = m /\ ~L[1].ok /\ m # "tiny") =>
                      IF pc[c] = "fallback"
                      THEN Len(L) = 1
                      ELSE /\ Len(L) = 2
                           /\ L[2].arg = "tiny"
                           /\ L[2].ok => /\ model[c] = L[2].h
                                         /\ cache[m] = L[2].h
                                         /\ ~LoadFailed(c)
                           /\ ~L[2].ok => LoadFailed(c)
                /\ (Len(L) >= 1 /\ ~L[1].ok /\ m = "tiny") =>
                      /\ Len(L) = 1
                      /\ LoadFailed(c)
                      /\ raised[c] # NoErr
                      /\ model[c] = NoHandle

\* a request for base whose load failed was answered with the handle of the
\* tiny load, which the cache holds under base
C3_Witness ==
    \E c \in Callers :
        /\ via[c] = "recorder"
        /\ model_size[c] = "base"
        /\ pc[c] = "loaded"
        /\ Len(Loads(c)) = 2
        /\ Loads(c)[1].arg = "base" /\ ~Loads(c)[1].ok
        /\ Loads(c)[2].arg = "tiny" /\ Loads(c)[2].ok
        /\ model[c] = Loads(c)[2].h
        /\ cache["base"] = model[c]

\* an error of the kind the specification calls ModelLoadError /
\* TranscriptionError: not the external capability's own exception
Translated(e) == e # NoErr /\ ~e.native

\* C4 (load failure outcome): when no model can be loaded for a job, its
\* caller receives a ModelLoadError naming the model asked for, nothing is
\* cached under that identifier and the caller holds no handle.
C4_LoadFailureOutcome ==
    \A c \in Callers :
        LoadFailed(c) =>
            /\ Translated(raised[c])
            /\ \E i \in DOMAIN raised[c].msg : raised[c].msg[i] = model_size[c]
            /\ cache[model_size[c]] = NoHandle
            /\ model[c] = NoHandle

\* C5 (recognition error translation): when model.transcribe raised, the
\* caller of transcribe_audio receives one error that is not the capability's
\* native exception and carries the original message, and no enriched result.
C5_ErrorTranslation ==
    \A c \in Callers :
        (RecognitionFailed(c) /\ pc[c] = "done") =>
            /\ Translated(raised[c])
            /\ raised[c].msg[Len(raised[c].msg)] = TRANSCRIBE_EXC
            /\ result[c] # "enriched"

\* an accelerator release was attempted after position i of c's trace
ReleasedAfter(c, i) == \E j \in At(c, "empty_cache") : j > i

\* C6 (accelerator release ordering): on cuda, a recognition call that
\* completed is followed by a release before the result is returned, and a
\* failed recognition call and a failed model load are followed by an
\* attempted release before the error reaches the caller.
C6_ReleaseOrdering ==
    DEVICE = "cuda" =>
        \A c \in Callers :
            /\ result[c] = "enriched" =>
                  \A i \in At(c, "transcribe") : ReleasedAfter(c, i)
            /\ (RecognitionFailed(c) /\ pc[c] = "done") =>
                  \A i \in At(c, "transcribe") : ReleasedAfter(c, i)
            /\ LoadFailed(c) =>
                  \A i \in At(c, "load_model") : ~trace[c][i].ok => ReleasedAfter(c, i)

\* C7 (cleanup failures are swallowed): a failing torch.cuda.empty_cache or a
\* failing os.unlink never reaches the caller: after a recognition failure
\* the caller receives the recognition error, after a successful recognition
\* the enriched result (main.py: the transcript).
C7_CleanupSwallowed ==
    \A c \in Callers :
        pc[c] = "done" =>
            /\ \A i \in DOMAIN raised[c].msg : raised[c].msg[i] # CUDA_EXC
            /\ RecognitionFailed(c) =>
                  raised[c] = Wrapped("Erro durante a transcricao", TRANSCRIBE_EXC)
            /\ RecognitionSucceeded(c) =>
                  (result[c] = "enriched" /\ raised[c] = NoErr)
            /\ (via[c] = "main" /\ \E i \in At(c, "transcribe") : trace[c][i].ok) =>
                  (result[c] = "transcript" /\ raised[c] = NoErr)

\* C8 (validation precedes allocation): for an uploaded file that fails
\* validation no temporary file is created, no model is loaded and no
\* recognition call is made, and the finished job has reported the failure.
C8_ValidationFirst ==
    \A c \in Callers :
        (via[c] \in {"main", "stage"} /\ ~validate_audio_file(job_file[c]).valid) =>
            /\ At(c, "tempfile") = {}
            /\ At(c, "load_model") = {}
            /\ At(c, "transcribe") = {}
            /\ pc[c] = "done" => raised[c] # NoErr

\* the six decoding parameters of a preset
DecodingParameters ==
    {"beam_size", "best_of", "temperature", "compression_ratio_threshold",
     "logprob_threshold", "no_speech_threshold"}

\* the preset a request selects: the one it names, balanced when it names
\* none or an unknown one
SelectedPreset(advanced_options) ==
    LET name == Get(advanced_options, "quality_preset", "balanced")
    IN  IF name \in {"fast", "balanced", "high_quality"}
        THEN QUALITY_PRESETS[name]
        ELSE QUALITY_PRESETS["balanced"]

C12_MergeOrder ==
    (returned.done /\ args.fn = "transcribe_audio") =>
        LET preset == SelectedPreset(args.advanced_options)
            has == args.advanced_options.has
        IN  /\ IF "temperature" \in has
               THEN args.advanced_options.temperature \in 0..10 =>
                        returned.options.temperature = args.advanced_options.temperature
               ELSE returned.options.temperature = preset.temperature
            /\ IF "beam_size" \in has
               THEN args.advanced_options.beam_size \in 1..10 =>
                        returned.options.beam_size = args.advanced_options.beam_size
               ELSE returned.options.beam_size = preset.beam_size

\* C13 (override clamping): whatever the request carries, the temperature
\* handed to model.transcribe lies in [0,1], the beam_size in [1,10], and the
\* confidence threshold read for the filtering in [0,1].
C13_Clamping ==
    (returned.done /\ args.fn = "transcribe_audio") =>
        /\ returned.options.temperature \in 0..10
        /\ returned.options.beam_size \in 1..10
        /\ returned.confidence_threshold \in 0..10

\* C14 (language option): the options handed to model.transcribe have no
\* language key when the language asked for is "auto" and carry the language
\* code otherwise, and they always ask for word timestamps.
C14_LanguageOption ==
    returned.done =>
        /\ IF args.language = "auto"
           THEN "language" \notin DOMAIN returned.options
           ELSE /\ "language" \in DOMAIN returned.options
                /\ returned.options.language = args.language
        /\ "word_timestamps" \in DOMAIN returned.options
        /\ returned.options.word_timestamps

(***************************************************************************)
(* Time formatting and subtitles (SpecFormat).                              *)
(***************************************************************************)

FormatReturned(fn) == args.fn = fn /\ returned.done

SrtReturned == FormatReturned("generate_srt_from_segments") \/ FormatReturned("generate_srt")

\* n written with exactly `width` digits, for 0 <= n < 10^width
Digits(n, width) == [i \in 1..width |-> DigitChars[((n \div (10 ^ (width - i))) % 10) + 1]]

\* the least number of digits, from two on, that write n
AtLeastTwo(n) == CHOOSE w \in 2..10 : n < 10 ^ w /\ (w > 2 => n >= 10 ^ (w - 1))

\* C20: format_time returns "00:00:00" for every negative input, and for
\* every input s >= 0, with n the whole seconds of s, returns HH:MM:SS with
\* HH = n div 3600, MM = (n mod 3600) div 60, SS = n mod 60, each written
\* with two digits, or more where the number needs more.
C20_FormatTime ==
    FormatReturned("format_time") =>
        LET s == args.seconds
            n == s \div Second
            HH == n \div 3600
            MM == (n % 3600) \div 60
            SS == n % 60
        IN  IF s < 0
            THEN returned.value = Digits(0, 2) \o <<":">> \o Digits(0, 2) \o <<":">> \o Digits(0, 2)
            ELSE returned.value = Digits(HH, AtLeastTwo(HH)) \o <<":">>
                                    \o Digits(MM, AtLeastTwo(MM)) \o <<":">>
                                    \o Digits(SS, AtLeastTwo(SS))

\* format_time has returned for an input of whole seconds and a fraction of
\* more than a half, which a rounding would carry into the minutes
C20_Witness ==
    /\ FormatReturned("format_time")
    /\ args.seconds > 0
    /\ 2 * (args.seconds % Second) > Second
    /\ (args.seconds \div Second) % 60 = 59

\* the whole milliseconds of a time
Milliseconds(t) == t \div (Second \div 1000)

\* HH:MM:SS,mmm of a time, from its whole milliseconds
Stamp(t) ==
    LET ms == Milliseconds(t)
        HH == ms \div 3600000
    IN  Digits(HH, AtLeastTwo(HH)) \o <<":">> \o Digits((ms \div 60000) % 60, 2) \o <<":">>
            \o Digits((ms \div 1000) % 60, 2) \o <<",">> \o Digits(ms % 1000, 3)

\* the block of the i-th segment
Block(i, segment) ==
    Digits(i, 1) \o <<"\n">> \o Stamp(segment.start) \o Arrow \o Stamp(segment.end)
        \o <<"\n">> \o Strip(segment.text) \o <<"\n", "\n">>

RECURSIVE Blocks(_, _)
\* the blocks of the first k segments, one after another
Blocks(segments, k) ==
    IF k = 0 THEN <<>> ELSE Blocks(segments, k - 1) \o Block(k, segments[k])

\* C18: for every segment list the subtitle output, of either generator, is
\* the concatenation in segment order of one block per segment: the index
\* (1, 2, 3, ... without gaps), a newline, start --> end, a newline, the
\* segment's text without its surrounding whitespace, a blank line; each
\* timestamp is HH:MM:SS,mmm with mmm the fraction of the second cut (never
\* rounded up) to whole milliseconds.
C18_SrtGrammar ==
    SrtReturned => returned.value = Blocks(args.segments, Len(args.segments))

\* generate_srt_from_segments has written several blocks, one of them with a
\* time whose fraction is 999.8 milliseconds
C18_Witness ==
    /\ FormatReturned("generate_srt_from_segments")
    /\ Len(args.segments) >= 2
    /\ \E i \in 1..Len(args.segments) :
          args.segments[i].end % Second > Second - (Second \div 1000)

\* a time cut to whole milliseconds
Truncated(t) == Milliseconds(t) * (Second \div 1000)

HasBlankLine(text) == FindBlank(text, 1) # 0

\* C19 (as stated): parsing the subtitle output of any segment list back
\* yields the (start, end, text) triples of the input segments in order,
\* start and end cut to whole milliseconds.
C19_RoundTripAsStated ==
    SrtReturned =>
        LET parsed == ParseSRT(returned.value)
        IN  /\ parsed.ok
            /\ parsed.triples =
                 [i \in 1..Len(args.segments) |->
                     <<Truncated(args.segments[i].start), Truncated(args.segments[i].end),
                       args.segments[i].text>>]

\* C19 (amended): when no segment's text, its surrounding whitespace taken
\* off, holds a blank line, parsing the subtitle output back yields in order
\* the triples (start, end, text) of the input segments with start and end
\* cut to whole milliseconds and the text without its surrounding whitespace.
C19_RoundTrip ==
    (/\ SrtReturned
     /\ \A i \in 1..Len(args.segments) : ~HasBlankLine(Strip(args.segments[i].text)))
    =>  LET parsed == ParseSRT(returned.value)
        IN  /\ parsed.ok
            /\ parsed.triples =
                 [i \in 1..Len(args.segments) |->
                     <<Truncated(args.segments[i].start), Truncated(args.segments[i].end),
                       Strip(args.segments[i].text)>>]

\* generate_srt has written several blocks that read back: a text with
\* whitespace around it, a time between two milliseconds
C19_Witness ==
    /\ FormatReturned("generate_srt")
    /\ Len(args.segments) >= 2
    /\ \A i \in 1..Len(args.segments) : ~HasBlankLine(Strip(args.segments[i].text))
    /\ \E i \in 1..Len(args.segments) : Strip(args.segments[i].text) # args.segments[i].text
    /\ \E i \in 1..Len(args.segments) : Truncated(args.segments[i].end) # args.segments[i].end
    /\ ParseSRT(returned.value).ok

(***************************************************************************)
(* Enrichment (SpecEnrich).                                                *)
(***************************************************************************)

Enriched == args.fn = "enhance_transcription_result" /\ returned.done /\ returned.raised = "none"

\* the places <<i, j>> of the words that carry a probability
ScoredWords(segments) ==
    { p \in (1..Len(segments)) \X (1..5) :
        /\ segments[p[1]].has_words
        /\ p[2] <= Len(segments[p[1]].words)
        /\ segments[p[1]].words[p[2]].has_probability }

RECURSIVE TotalProbability(_, _)
TotalProbability(segments, places) ==
    IF places = {} THEN 0
    ELSE LET p == CHOOSE q \in places : TRUE
         IN  segments[p[1]].words[p[2]].probability
                 + TotalProbability(segments, places \ {p})

\* C15: for every raw transcript whose word probabilities lie in [0,1], the
\* enriched average_confidence lies in [0,1] and is the mean of all the word
\* probabilities of all the segments; it is 0.5 when no word carries a
\* probability.
C15_AverageConfidence ==
    Enriched =>
        LET segments == args.result.segments
            places == ScoredWords(segments)
            average == returned.result.average_confidence
        IN  /\ "average_confidence" \in returned.result.has
            /\ average.den > 0
            /\ 0 <= average.num
            /\ average.num <= 10 * average.den
            /\ IF places = {}
               THEN average.num = 5 * average.den
               ELSE average.num * Cardinality(places)
                        = TotalProbability(segments, places) * average.den

\* an enriched transcript with scored words in two segments, a word without
\* probability and a segment without words
C15_Witness ==
    /\ Enriched
    /\ LET segments == args.result.segments
       IN  /\ \E p, q \in ScoredWords(segments) : p[1] # q[1]
           /\ \E i \in 1..Len(segments) :
                 \E j \in 1..Len(WordsOf(segments[i])) :
                    ~segments[i].words[j].has_probability
           /\ \E i \in 1..Len(segments) : ~segments[i].has_words

\* C16: enrichment with confidence_threshold = 0 returns the original
\* segment list unchanged: the same segments in the same order with the same
\* fields, and the same count.
C16_ZeroThreshold ==
    (Enriched /\ Get(args.advanced_options, "confidence_threshold", 0) = 0) =>
        /\ returned.result.segments = args.result.segments
        /\ Len(returned.result.segments) = Len(args.result.segments)
        /\ "filtered_segments_count" \notin returned.result.has

\* an enrichment asked with confidence_threshold 0 of several segments, one
\* of them of confidence below 0.5
C16_Witness ==
    /\ Enriched
    /\ "confidence_threshold" \in args.advanced_options.has
    /\ args.advanced_options.confidence_threshold = 0
    /\ Len(args.result.segments) >= 2
    /\ \E i \in 1..Len(args.result.segments) :
          Below(segment_confidence(args.result.segments[i]), 5)

\* C17: enriching a raw transcript with an empty segments list yields
\* audio_duration 0, no processing_speed_ratio, speech_rate "normal" and
\* has_silence false.
C17_EmptyTranscript ==
    (/\ args.fn = "enhance_transcription_result"
     /\ returned.done
     /\ args.result.segments = <<>>)
    =>  /\ returned.raised = "none"
        /\ "audio_duration" \in returned.result.has
        /\ returned.result.audio_duration = 0
        /\ "processing_speed_ratio" \notin returned.result.has
        /\ returned.result.audio_characteristics.speech_rate = "normal"
        /\ returned.result.audio_characteristics.has_silence = FALSE

\* the part of C17 the code keeps: no processing_speed_ratio, speech_rate
\* "normal", has_silence false, and no audio_duration key at all
EmptyTranscriptAsCoded ==
    (/\ args.fn = "enhance_transcription_result"
     /\ returned.done
     /\ args.result.segments = <<>>)
    =>  /\ returned.raised = "none"
        /\ "audio_duration" \notin returned.result.has
        /\ "processing_speed_ratio" \notin returned.result.has
        /\ returned.result.audio_characteristics.speech_rate = "normal"
        /\ returned.result.audio_characteristics.has_silence = FALSE

RECURSIVE Total(_, _)
\* the sum of f over the set places
Total(f, places) ==
    IF places = {} THEN 0
    ELSE LET p == CHOOSE q \in places : TRUE
         IN  f[p] + Total(f, places \ {p})

\* a segment without the confidence field the filter writes
Bare(segment) == [segment EXCEPT !.has_confidence = FALSE, !.confidence = NoConfidence]

\* the threshold the enrichment was asked with
Threshold == Get(args.advanced_options, "confidence_threshold", 0)

\* the mean of the probabilities of the segment's words, 0.5 standing in
\* for a word without probability; 0.5 when there are no words
CountedMean(segment) ==
    LET words == WordsOf(segment)
        value == [j \in 1..Len(words) |->
                    IF words[j].has_probability THEN words[j].probability ELSE 5]
    IN  IF words = <<>> THEN Ratio(5, 1)
        ELSE Ratio(Total(value, 1..Len(words)), Len(words))

\* the mean of the probabilities the segment's words carry; 0.5 when none
\* carries one
ScoredMean(segment) ==
    LET words == WordsOf(segment)
        scored == { j \in 1..Len(words) : words[j].has_probability }
        value == [j \in scored |-> words[j].probability]
    IN  IF scored = {} THEN Ratio(5, 1)
        ELSE Ratio(Total(value, scored), Cardinality(scored))

\* the enriched list is the original segments whose mean m reaches the
\* threshold, in their order, and the count is its length
FilteredBy(m(_)) ==
    LET original == args.result.segments
        kept == returned.result.segments
        reaches(segment) == m(segment).num >= Threshold * m(segment).den
    IN  /\ [i \in 1..Len(kept) |-> Bare(kept[i])] = SelectSeq(original, reaches)
        /\ "filtered_segments_count" \in returned.result.has
        /\ returned.result.filtered_segments_count = Len(kept)
        /\ returned.result.filtered_segments_count <= Len(original)

\* C23 (as stated): when confidence_threshold > 0 the enriched segment list
\* is the order-preserving subsequence of the original segments whose
\* confidence, the mean of the probabilities of the segment's own words
\* (0.5 when it has none), is >= the threshold; filtered_segments_count is
\* the length of that list and at most the number of original segments.
C23_FilteringAsStated == (Enriched /\ Threshold > 0) => FilteredBy(ScoredMean)

\* C23 (amended): when confidence_threshold > 0 the enriched segment list is
\* the order-preserving subsequence of the original segments whose
\* confidence is >= the threshold, the confidence being the mean over the
\* segment's words of the word's probability, or of 0.5 for a word that
\* carries none, and 0.5 for a segment without words; each kept segment
\* gains that confidence as a field; filtered_segments_count is the length
\* of the list and at most the number of original segments.
C23_Filtering ==
    (Enriched /\ Threshold > 0) =>
        /\ FilteredBy(CountedMean)
        /\ \A i \in 1..Len(returned.result.segments) :
              LET segment == returned.result.segments[i]
              IN  /\ segment.has_confidence
                  /\ segment.confidence.den > 0
                  /\ segment.confidence.num * CountedMean(segment).den
                         = CountedMean(segment).num * segment.confidence.den

\* a filtering that dropped a segment and kept another, the kept one with a
\* word without probability that lifts its mean over the threshold
C23_Witness ==
    /\ Enriched
    /\ Threshold > 0
    /\ returned.result.segments # <<>>
    /\ Len(returned.result.segments) < Len(args.result.segments)
    /\ \E i \in 1..Len(returned.result.segments) :
          LET segment == returned.result.segments[i]
          IN  /\ ScoredMean(segment).num < Threshold * ScoredMean(segment).den
              /\ CountedMean(segment).num >= Threshold * CountedMean(segment).den

\* C24: the enriched result contains processing_speed_ratio and
\* realtime_factor exactly when audio_duration > 0; then
\* processing_speed_ratio = processing_time / audio_duration and
\* realtime_factor is its reciprocal; both are absent when audio_duration
\* is 0.
C24_SpeedMetrics ==
    Enriched =>
        LET enriched == returned.result
            audio_duration == Get(enriched, "audio_duration", 0)
            ratio == enriched.processing_speed_ratio
            factor == enriched.realtime_factor
        IN  /\ "processing_speed_ratio" \in enriched.has <=> audio_duration > 0
            /\ "realtime_factor" \in enriched.has <=> audio_duration > 0
            /\ audio_duration > 0 =>
                  /\ ratio = [num |-> args.processing_time, den |-> audio_duration]
                  /\ factor = [num |-> ratio.den, den |-> ratio.num]
                  /\ factor.den > 0

\* an enriched result of a transcript that lasts, with both metrics
C24_Witness ==
    /\ Enriched
    /\ Get(returned.result, "audio_duration", 0) > 0
    /\ {"processing_speed_ratio", "realtime_factor"} \subseteq returned.result.has
    /\ args.processing_time # returned.result.audio_duration

\* C25: in every enriched result audio_quality is excellent when
\* average_confidence > 0.7, good when > 0.5, fair when > 0.3 and poor
\* otherwise, and language_confidence is high when average_confidence > 0.8,
\* low when < 0.4 and medium otherwise, whatever the segment list is.
C25_QualityBuckets ==
    Enriched =>
        LET average == returned.result.average_confidence
            over(tenths) == average.num > tenths * average.den
            under(tenths) == average.num < tenths * average.den
            found == returned.result.audio_characteristics
        IN  /\ found.audio_quality =
                  (IF over(7) THEN "excellent" ELSE IF over(5) THEN "good"
                   ELSE IF over(3) THEN "fair" ELSE "poor")
            /\ found.language_confidence =
                  (IF over(8) THEN "high" ELSE IF under(4) THEN "low" ELSE "medium")

\* the buckets follow the confidence when the enriched list has a segment
QualityBucketsOfSegments ==
    (Enriched /\ returned.result.segments # <<>>) => C25_QualityBuckets

\* two adjacent segments of the list more than three seconds apart
HasGap(segments) ==
    \E i \in 1..(Len(segments) - 1) : segments[i + 1].start - segments[i].end > 3 * Second

\* C26: has_silence is true exactly when some pair of adjacent segments of
\* the transcript, as the enriched result holds it, has
\* next.start - prev.end > 3.0 seconds; a gap of exactly 3.0 seconds does
\* not set it, nor does a transcript of fewer than two segments.
C26_SilenceFlag ==
    Enriched =>
        /\ returned.result.audio_characteristics.has_silence
               <=> HasGap(returned.result.segments)
        /\ Len(returned.result.segments) < 2
               => ~returned.result.audio_characteristics.has_silence
        /\ Threshold <= 0 =>
              (returned.result.audio_characteristics.has_silence
                   <=> HasGap(args.result.segments))

\* an enriched transcript of several unfiltered segments, two of them
\* exactly three seconds apart, and no silence found
C26_Witness ==
    /\ Enriched
    /\ Threshold <= 0
    /\ \E i \in 1..(Len(args.result.segments) - 1) :
          args.result.segments[i + 1].start - args.result.segments[i].end = 3 * Second
    /\ ~returned.result.audio_characteristics.has_silence

\* C27: for every raw transcript with at least one segment and every
\* processing time >= 0, zero included, enhance_transcription_result returns
\* a result and raises no division error.
C27_NoArithmeticFailure ==
    (/\ args.fn = "enhance_transcription_result"
     /\ returned.done
     /\ args.result.segments # <<>>
     /\ args.processing_time >= 0)
    =>  returned.raised = "none"

\* C28: for one raw transcript and one processing time, two enrichments that
\* differ only in confidence_threshold give the same audio_characteristics.
C28_FilterIndependence ==
    Enriched =>
        \A advanced_options \in EnrichOptions :
            LET other == enhance_transcription_result(args.result, args.processing_time,
                                                      advanced_options)
            IN  other.raised = "none" =>
                    other.result.audio_characteristics
                        = returned.result.audio_characteristics

(***************************************************************************)
(* The device profile (SpecDevice).                                        *)
(***************************************************************************)

\* the kind and the memory of the device a call resolves the profile of
ProfiledKind == IF args.fn = "optimize_for_device" THEN DEVICE ELSE args.device_type

ProfiledMemory == IF args.fn = "optimize_for_device" THEN args.gpu_memory ELSE args.memory_gb

\* the profile has parallelism enabled
Parallel(config) == "parallel_processing" \in DOMAIN config /\ config.parallel_processing

\* C21: the resolved device profile is cpu with [tiny, base] and 50MB when
\* no accelerated device is found; with an accelerated device of less than
\* 4GB it is [small, medium] with 250MB; with 8GB or more it is
\* [medium, large-v2] with 500MB and parallelism enabled; parallelism is
\* disabled in every other tier.
C21_DeviceProfile ==
    (args.fn \in {"optimize_for_device", "get_device_config"} /\ returned.done
        /\ ProfiledMemory # NoMemory) =>
        LET config == returned.config
            tier(models, size) ==
                config.recommended_models = models /\ config.max_file_size_mb = size
        IN  /\ ProfiledKind = "cpu" => tier(<<"tiny", "base">>, 50)
            /\ (ProfiledKind = "cuda" /\ ProfiledMemory < 4 * GB)
                  => tier(<<"small", "medium">>, 250)
            /\ (ProfiledKind = "cuda" /\ ProfiledMemory >= 8 * GB)
                  => tier(<<"medium", "large-v2">>, 500)
            /\ Parallel(config) <=> (ProfiledKind = "cuda" /\ ProfiledMemory >= 8 * GB)

\* what optimize_for_device gives: the table of C21 with the tier below 4GB
\* at [tiny, base, small] and 100MB, and [small, medium] with 250MB from 4GB
\* up to 8GB
DeviceProfileAsCoded ==
    (args.fn = "optimize_for_device" /\ returned.done) =>
        LET config == returned.config
            tier(models, size) ==
                config.recommended_models = models /\ config.max_file_size_mb = size
        IN  /\ DEVICE = "cpu" => tier(<<"tiny", "base">>, 50)
            /\ (DEVICE = "cuda" /\ args.gpu_memory < 4 * GB)
                  => tier(<<"tiny", "base", "small">>, 100)
            /\ (DEVICE = "cuda" /\ args.gpu_memory >= 4 * GB /\ args.gpu_memory < 8 * GB)
                  => tier(<<"small", "medium">>, 250)
            /\ (DEVICE = "cuda" /\ args.gpu_memory >= 8 * GB)
                  => tier(<<"medium", "large-v2">>, 500)
            /\ config.parallel_processing <=> (DEVICE = "cuda" /\ args.gpu_memory >= 8 * GB)

(***************************************************************************)
(* File names (SpecNames).                                                 *)
(***************************************************************************)

\* a character that is not a letter, a digit, '-', '_' or '.'
Odd(ch) == ch \notin {"a", "u", "d", "i", "o", "f", "l", "e", "1", "-", "_", "."}

RECURSIVE RunsReplaced(_)
\* each run of odd characters replaced by one underscore
RunsReplaced(stem) ==
    IF stem = <<>> THEN <<>>
    ELSE IF Odd(Head(stem))
         THEN IF Len(stem) >= 2 /\ Odd(stem[2])
              THEN RunsReplaced(Tail(stem))
              ELSE <<"_">> \o RunsReplaced(Tail(stem))
         ELSE <<Head(stem)>> \o RunsReplaced(Tail(stem))

\* C22: clean_filename keeps the extension unchanged and replaces each run
\* of characters of the stem that are not letters, digits, '-', '_' or '.'
\* by a single underscore, keeping an underscore produced at the end of the
\* stem, and returns the stem "audio_file" when the stem consists only of
\* such characters.
C22_CleanFilename ==
    (args.fn = "clean_filename" /\ returned.done) =>
        LET stem == Stem(args.filename)
        IN  returned.value =
                (IF \A i \in 1..Len(stem) : Odd(stem[i])
                 THEN AudioFile
                 ELSE RunsReplaced(stem)) \o Suffix(args.filename)

\* what clean_filename keeps of C22: the extension unchanged, no odd
\* character and no two underscores in a row in the stem, no underscore at
\* either end of it, "audio_file" for a stem of odd characters and
\* underscores only
CleanFilenameAsCoded ==
    (args.fn = "clean_filename" /\ returned.done) =>
        LET extension == Suffix(args.filename)
            stem == Stem(args.filename)
            cleaned == SubSeq(returned.value, 1, Len(returned.value) - Len(extension))
        IN  /\ returned.value = cleaned \o extension
            /\ cleaned # <<>>
            /\ cleaned[1] # "_" /\ cleaned[Len(cleaned)] # "_"
            /\ \A i \in 1..Len(cleaned) : ~Odd(cleaned[i])
            /\ \A i \in 1..(Len(cleaned) - 1) : ~(cleaned[i] = "_" /\ cleaned[i + 1] = "_")
            /\ (\A i \in 1..Len(stem) : Odd(stem[i]) \/ stem[i] = "_") <=> cleaned = AudioFile

(***************************************************************************)
(* Staging (SpecStaging).                                                  *)
(***************************************************************************)

StagingReturned ==
    args.fn \in {"utils.save_uploaded_file", "main.save_uploaded_file"} /\ returned.done

\* C29: whenever save_uploaded_file ends by raising an error, no temporary
\* file created by that call remains on disk; a staged file exists after
\* the call only if its path was returned to the caller.
C29_NoOrphan ==
    StagingReturned =>
        /\ returned.raised # NoErr => disk \cap created = {}
        /\ \A path \in disk \cap created : returned.value = path

\* what holds of C29: a call that ends on a failed validation, on a failed
\* NamedTemporaryFile or on the check of line 76 leaves no file, and a
\* returned path is a file on disk
NoOrphanAsCoded ==
    StagingReturned =>
        /\ returned.value # NoPath => disk = {returned.value}
        /\ ~args.io.create_ok => disk = {}
        /\ (/\ args.fn = "utils.save_uploaded_file"
            /\ \/ ~validate_audio_file(args.uploaded_file).valid
               \/ args.io.getvalue_ok /\ args.io.write_ok /\ ~args.io.found)
              => disk = {}

(***************************************************************************)
(* The recording session (SpecRecorder).                                   *)
(***************************************************************************)

\* every temporary file the session made is the recorded_file or is gone
OneRecordingFile ==
    \A path \in created : path = recording_state.recorded_file \/ path \notin disk

\* not recording after a stop, recorded_file is the file that stop made
StopMadeFile ==
    (handler.name \in {"stop_recording", "auto_stop"} /\ ~recording_state.is_recording)
        => (handler.made # NoPath /\ recording_state.recorded_file = handler.made)

\* C30: over any sequence of start_recording, stop_recording, automatic
\* stop, reset_recording and transcribe actions, every recording temp file
\* the session created is either the one recorded_file refers to or has
\* been deleted, and whenever the session is not recording after a stop,
\* recorded_file refers to the file produced by that stop.
C30_OneRecordingFile == OneRecordingFile /\ StopMadeFile

\* what holds of C30: a stop by the button that ends the recording leaves
\* recorded_file at the file it made, and that file exists
ButtonStopMadeFile ==
    (handler.name = "stop_recording" /\ ~recording_state.is_recording)
        => /\ handler.made # NoPath
           /\ recording_state.recorded_file = handler.made
           /\ handler.made \in disk

====
